---- MODULE Spec2Model ----
(***************************************************************************)
(* Model of the land-plot marketplace frontend:                            *)
(*   - PlotManagementService (frontend/src/services/plotsManage.ts): the   *)
(*     30 s read-through cache of ordered plots, its single-flight guard,  *)
(*     cache invalidation and the enrichment of plots with order status;   *)
(*   - MapView.handleOrderSubmit (unnamed/part_002): the optimistic order  *)
(*     submission with rollback.                                           *)
(* Time is Date.now() in milliseconds.  The event loop is single-threaded: *)
(* every action is one synchronous run of code between two awaits.         *)
(***************************************************************************)
EXTENDS Integers, Sequences, FiniteSets, TLC

\* ---------------------------------------------------------------- bounds
NumCallers == 2        \* overlapping getOrderedPlots calls
MaxTicks == 4          \* clock steps explored
TickMs == 10000        \* milliseconds per clock step
StartNow == 100000     \* Date.now() when the service is constructed
MaxOrdered == 2        \* longest ordered-plots list explored by the enrichment
MaxPlots == 2          \* longest plot list given to the enrichment
MaxOrders == 2         \* order submissions in flight at once

\* ------------------------------------------------------- program constants
cacheExpirationMs == 30000

Callers == 1..NumCallers
PlotIds == {1, 2}
Dates == {1, 2}
Undefined == "undefined"   \* an optional field that is absent
NoDate == 0                \* orderDate absent
NoPlot == 0                \* selectedPlot is null

OrderStatuses == {"pending", "approved", "rejected"}
PlotStatuses == {"available", "taken", "pending"}

\* interface OrderedPlot
OrderedPlot == [plot_id : PlotIds, customer_name : {"a", "b"},
                order_status : OrderStatuses, order_date : Dates]

\* the Plot fields the service reads and writes
Plot == [id : PlotIds, status : PlotStatuses]

\* a null element inside the ordered_plots array of a malformed response
NullEntry == [plot_id |-> 0, customer_name |-> "null",
              order_status |-> "null", order_date |-> 0]

SeqUpTo(S, n) == UNION {[1..k -> S] : k \in 0..n}

\* responses of GET /api/plots/ordered seen by the cache specification
Entry(i, s, d) == [plot_id |-> i, customer_name |-> IF d = 1 THEN "a" ELSE "b",
                   order_status |-> s, order_date |-> d]
CacheResponses == {<<>>, <<Entry(1, "pending", 1)>>, <<Entry(1, "approved", 2)>>}

\* responses seen by the enrichment specification: every list of at most
\* MaxOrdered entries, duplicates of a plot_id and null elements included
EnrichEntries ==
  {Entry(i, s, d) : i \in PlotIds, s \in OrderStatuses, d \in Dates} \cup {NullEntry}
EnrichResponses == SeqUpTo(EnrichEntries, MaxOrdered)

\* plot lists given to the enrichment: at most MaxPlots plots with distinct ids
PlotInputs ==
  {ps \in SeqUpTo(Plot, MaxPlots) :
     \A i, j \in 1..Len(ps) : i # j => ps[i].id # ps[j].id}

VARIABLES
  now,                 \* Date.now()
  orderedPlotsCache,   \* PlotManagementService.orderedPlotsCache
  cacheTimestamp,      \* PlotManagementService.cacheTimestamp
  isLoading,           \* PlotManagementService.isLoading
  pc,                  \* per call of getOrderedPlots: idle, wait, fetch, done
  result,              \* per call: the value the promise resolved to
  outcome,             \* per call: none, hit, ok, failed
  waited,              \* per call: it went through the busy-wait loop
  lastFetchAt,         \* time of the latest successful fetch, -1 if none
  lastFetchData,       \* the list that fetch delivered
  invalidatedSince,    \* invalidateCache was called after that fetch
  invalidatedPending,  \* invalidateCache was called and no call was made since
                       \* while no fetch was in flight
  issuedBefore,        \* fetch: the request in flight was issued before the
                       \* latest invalidateCache call; cache: the cache was
                       \* filled by such a request
  epc,                 \* enrichPlotsWithOrderStatus: idle, awaiting, done
  plotsIn,             \* its argument
  enriched,            \* what its promise settled with: [rejected, value]
  plots,               \* MapView state: the plot list
  selectedPlot,        \* MapView state: id of the selected plot, NoPlot if null
  isModalOpen,         \* MapView state: the order dialog is open
  orderError,          \* MapView state: the order error message, "null" if none
  orders,              \* handleOrderSubmit invocations awaiting createOrder
  loadingRef,          \* MapView loadingRef.current: a plot load is running
  orderOutcome,        \* how the latest createOrder call ended: none, ok, failed
  btnPlot,             \* the plot handed to the order-button helpers
  showButton,          \* what shouldShowOrderButton returned, "none" before
  buttonText,          \* what getOrderButtonText returned, "none" before
  btnCalled,           \* which of the two helpers were called: "show", "text"
  clock,               \* ms elapsed on the timer clock of the page
  loading,             \* MapView state: the loading overlay is shown
  error,               \* MapView state: the load error, "null" if none
  connectionStatus,    \* MapView state: checking, connected, disconnected
  fetches,             \* getAllPlots calls loadPlots is awaiting, oldest first
  timers,              \* pending retry timers of loadPlots, oldest first
  loadEffectDue,       \* the load effect has to run (isMapReady changed)
  renderEffectDue,     \* the render effect has to run (a dependency changed)
  lastPlotsHashRef,    \* MapView lastPlotsHashRef.current, <<>> for ''
  renderingRef,        \* MapView renderingRef.current
  view,                \* centre and zoom of the Leaflet map
  mapViewStateRef,     \* MapView mapViewStateRef.current
  moveTimers,          \* pending timers of a map move: "unlock", "view"
  plotLayer,           \* the plot layer: ref says plotLayerRef.current is set,
                       \* attached counts the plot layers on the map, from is
                       \* the hash of the list the last build used
  containerZero,       \* the map container has zero width or height
  mapRef,              \* number of live Leaflet maps held by mapRef (0: null)
  initializingRef,     \* MapView initializingRef.current
  isMapReady,          \* MapView state
  mapError,            \* MapView state: the map error, "null" if none
  initTimer,           \* pending setTimeout(initializeMap, 100) timers
  readyTimer,          \* pending 500 ms ready timeouts of initializeMap
  mountEffectDue,      \* the mount effect has to run
  zeroAttempts,        \* initializeMap calls that found the container without
                       \* size, counted modulo ZeroAttemptsMod
  leafletMaps,         \* Leaflet maps created by L.map and not removed
  containerRef,        \* containerRef.current is set (MapView is mounted)
  labelLayerRef,       \* MapView labelLayerRef.current: the number of the
                       \* createPlotLabels call that made the group, 0 if null
  labelGroups,         \* per label group: the label chunks added to it, each
                       \* [call, lo, hi]: labels of plots lo..hi made by a call
  labelsOnMap,         \* the label groups attached to the map
  labelFrames,         \* processChunk callbacks waiting for an animation
                       \* frame, oldest first
  labelCalls,          \* createPlotLabels calls made so far
  hookPlots,           \* usePlots state plots: the loaded list
  filteredPlots,       \* usePlots state filteredPlots, exposed as plots
  hookLoading,         \* usePlots state isLoading
  searches,            \* searchPlots requests in flight: issue number, query
  searchCount,         \* searchPlots calls made so far
  searchQuery,         \* SearchAndFilters state searchQuery: the query of
                       \* the latest searchPlots call
  geometry,            \* the geometry handed to isValidGeometry (it is changed
                       \* in place)
  geometryIn,          \* that geometry as it was before the call
  geomResult,          \* what isValidGeometry returned: none, true, false
  centroidIn,          \* the ring handed to getPolygonCentroid, with its unit
  centroid             \* what getPolygonCentroid returned, <<>> before

svcVars == <<now, orderedPlotsCache, cacheTimestamp, isLoading, pc, result,
             outcome, waited, lastFetchAt, lastFetchData, invalidatedSince,
             invalidatedPending, issuedBefore>>
enrichVars == <<epc, plotsIn, enriched>>
mapVars == <<plots, selectedPlot, isModalOpen, orderError, orders, loadingRef,
             orderOutcome>>
btnVars == <<btnPlot, showButton, buttonText, btnCalled>>
loadVars == <<clock, loading, error, connectionStatus, fetches, timers,
              loadEffectDue, renderEffectDue, lastPlotsHashRef, renderingRef,
              view, mapViewStateRef, moveTimers, plotLayer>>
initVars == <<containerZero, mapRef, initializingRef, isMapReady, mapError,
              initTimer, readyTimer, mountEffectDue, zeroAttempts, leafletMaps,
              containerRef>>
geoVars == <<geometry, geometryIn, geomResult, centroidIn, centroid>>
labelVars == <<labelLayerRef, labelGroups, labelsOnMap, labelFrames,
               labelCalls>>
hookVars == <<hookPlots, filteredPlots, hookLoading, searches, searchCount,
              searchQuery>>
uiVars == <<btnVars, loadVars, initVars, geoVars, labelVars, hookVars>>
vars == <<svcVars, enrichVars, mapVars, uiVars>>

inflight == {c \in Callers : pc[c] = "fetch"}

\* isCacheValid with the expiry bound included
isCacheValid_Inclusive == now - cacheTimestamp <= cacheExpirationMs

\* PlotManagementService.isCacheValid; the cache always holds an array here
isCacheValid == now - cacheTimestamp < cacheExpirationMs

SvcInit ==
  /\ now = StartNow
  /\ orderedPlotsCache = <<>>
  /\ cacheTimestamp = 0
  /\ isLoading = FALSE
  /\ pc = [c \in Callers |-> "idle"]
  /\ result = [c \in Callers |-> <<>>]
  /\ outcome = [c \in Callers |-> "none"]
  /\ waited = [c \in Callers |-> FALSE]
  /\ lastFetchAt = -1
  /\ lastFetchData = <<>>
  /\ invalidatedSince = FALSE
  /\ invalidatedPending = FALSE
  /\ issuedBefore = [fetch |-> FALSE, cache |-> FALSE]

NotSettled == [rejected |-> FALSE, value |-> <<>>]

EnrichInit ==
  /\ epc = "idle"
  /\ plotsIn = <<>>
  /\ enriched = NotSettled

OrderSlots == 1..MaxOrders
\* loaded is the list a plot load delivered while the request was in flight,
\* <<>> if none did
NoOrder == [pc |-> "idle", plotId |-> NoPlot, originalPlots |-> <<>>,
            loaded |-> <<>>]

MapInit ==
  /\ plots = <<>>
  /\ selectedPlot = NoPlot
  /\ isModalOpen = FALSE
  /\ orderError = "null"
  /\ orders = [k \in OrderSlots |-> NoOrder]
  /\ loadingRef = FALSE
  /\ orderOutcome = "none"

\* a plot on which no button helper was called yet
NoButtonPlot ==
  [status |-> "available", hasActiveOrder |-> FALSE, orderStatus |-> Undefined]

BtnInit ==
  /\ btnPlot = NoButtonPlot
  /\ showButton = FALSE
  /\ buttonText = "none"
  /\ btnCalled = {}

\* TANZANIA_CONFIG.defaultZoom
defaultZoom == 20

\* TANZANIA_CONFIG.center and defaultZoom
DefaultView == [center |-> "TANZANIA_CONFIG.center", zoom |-> defaultZoom]
\* a view the user moved the map to
MovedView == [center |-> "elsewhere", zoom |-> defaultZoom - 2]
Views == {DefaultView, MovedView}

NoHash == <<>>

\* the useState and useRef initial values of MapView
\* no plot layer was built yet
NoLayer == [ref |-> FALSE, attached |-> 0, from |-> NoHash]

LoadInit ==
  /\ clock = 0
  /\ loading = TRUE
  /\ error = "null"
  /\ connectionStatus = "checking"
  /\ fetches = <<>>
  /\ timers = <<>>
  /\ loadEffectDue = FALSE
  /\ renderEffectDue = FALSE
  /\ lastPlotsHashRef = NoHash
  /\ renderingRef = FALSE
  /\ view = DefaultView
  /\ mapViewStateRef = DefaultView
  /\ moveTimers = {}
  /\ plotLayer = NoLayer

\* MapView before its mount effect ran
MountInit ==
  /\ containerZero = FALSE
  /\ mapRef = 0
  /\ initializingRef = FALSE
  /\ isMapReady = FALSE
  /\ mapError = "null"
  /\ initTimer = 0
  /\ readyTimer = 0
  /\ mountEffectDue = TRUE
  /\ zeroAttempts = 0
  /\ leafletMaps = 0
  /\ containerRef = TRUE

\* createPlotLabels was not called yet
LabelInit ==
  /\ labelLayerRef = 0
  /\ labelGroups = <<>>
  /\ labelsOnMap = {}
  /\ labelFrames = <<>>
  /\ labelCalls = 0

\* usePlots with its first load done
HookInit ==
  /\ hookPlots = {}
  /\ filteredPlots = {}
  /\ hookLoading = FALSE
  /\ searches = {}
  /\ searchCount = 0
  /\ searchQuery = <<>>

\* no geometry was validated yet
GeoInit ==
  /\ geometry = [type |-> "Point", present |-> FALSE, coordinates |-> <<>>]
  /\ geometryIn = geometry
  /\ geomResult = "none"
  /\ centroidIn = [unit |-> "deg", ring |-> <<>>]
  /\ centroid = <<>>

UiInit == BtnInit /\ LoadInit /\ MountInit /\ GeoInit /\ LabelInit /\ HookInit

Init == SvcInit /\ EnrichInit /\ MapInit /\ UiInit

\* body of a response of GET /api/plots/ordered: has = the ordered_plots key is
\* present
ServerData(lists) ==
  {[has |-> FALSE, ordered_plots |-> <<>>]} \cup
  {[has |-> TRUE, ordered_plots |-> l] : l \in lists}

\* data.ordered_plots || []
ExtractOrderedPlots(data) == IF data.has THEN data.ordered_plots ELSE <<>>

\* getOrderedPlots without the isLoading guard
Call_NoGuard(c) ==
  /\ pc[c] = "idle"
  /\ IF isCacheValid
       THEN /\ pc' = [pc EXCEPT ![c] = "done"]
            /\ result' = [result EXCEPT ![c] = orderedPlotsCache]
            /\ outcome' = [outcome EXCEPT ![c] = "hit"]
            /\ UNCHANGED <<isLoading, waited>>
       ELSE /\ isLoading' = TRUE
            /\ pc' = [pc EXCEPT ![c] = "fetch"]
            /\ UNCHANGED <<result, outcome, waited>>
  /\ invalidatedPending' = (invalidatedPending /\ inflight # {})
  /\ UNCHANGED <<now, orderedPlotsCache, cacheTimestamp, lastFetchAt,
                 lastFetchData, invalidatedSince, issuedBefore>>

\* getOrderedPlots up to its first await: the cache check, then either the
\* busy-wait loop or the start of the fetch
Call(c) ==
  /\ pc[c] = "idle"
  /\ IF isCacheValid
       THEN /\ pc' = [pc EXCEPT ![c] = "done"]
            /\ result' = [result EXCEPT ![c] = orderedPlotsCache]
            /\ outcome' = [outcome EXCEPT ![c] = "hit"]
            /\ UNCHANGED <<isLoading, waited>>
       ELSE IF isLoading
         THEN /\ pc' = [pc EXCEPT ![c] = "wait"]
              /\ waited' = [waited EXCEPT ![c] = TRUE]
              /\ UNCHANGED <<isLoading, result, outcome>>
         ELSE /\ isLoading' = TRUE
              /\ pc' = [pc EXCEPT ![c] = "fetch"]
              /\ UNCHANGED <<result, outcome, waited>>
  /\ invalidatedPending' = (invalidatedPending /\ inflight # {})
  /\ UNCHANGED <<now, orderedPlotsCache, cacheTimestamp, lastFetchAt,
                 lastFetchData, invalidatedSince, issuedBefore>>

\* the 100 ms timer of the busy-wait loop fires and finds isLoading false:
\* the loop ends, the cache is re-checked, and the call fetches if it is invalid
WaitPoll(c) ==
  /\ pc[c] = "wait"
  /\ ~isLoading
  /\ IF isCacheValid
       THEN /\ pc' = [pc EXCEPT ![c] = "done"]
            /\ result' = [result EXCEPT ![c] = orderedPlotsCache]
            /\ outcome' = [outcome EXCEPT ![c] = "hit"]
            /\ UNCHANGED isLoading
       ELSE /\ isLoading' = TRUE
            /\ pc' = [pc EXCEPT ![c] = "fetch"]
            /\ UNCHANGED <<result, outcome>>
  /\ UNCHANGED <<now, orderedPlotsCache, cacheTimestamp, waited, lastFetchAt,
                 lastFetchData, invalidatedSince, invalidatedPending,
                 issuedBefore>>

\* the fetch resolves with an OK response: the cache is replaced and stamped
FetchOk(c, data) ==
  /\ pc[c] = "fetch"
  /\ LET orderedPlots == ExtractOrderedPlots(data) IN
       /\ orderedPlotsCache' = orderedPlots
       /\ cacheTimestamp' = now
       /\ result' = [result EXCEPT ![c] = orderedPlots]
       /\ lastFetchData' = orderedPlots
  /\ outcome' = [outcome EXCEPT ![c] = "ok"]
  /\ isLoading' = FALSE
  /\ pc' = [pc EXCEPT ![c] = "done"]
  /\ lastFetchAt' = now
  /\ invalidatedSince' = FALSE
  /\ issuedBefore' = [fetch |-> FALSE, cache |-> issuedBefore.fetch]
  /\ UNCHANGED <<now, waited, invalidatedPending>>

\* a catch block that answers with an empty list whatever the cache holds
FetchFail_Empty(c) ==
  /\ pc[c] = "fetch"
  /\ result' = [result EXCEPT ![c] = <<>>]
  /\ outcome' = [outcome EXCEPT ![c] = "failed"]
  /\ isLoading' = FALSE
  /\ pc' = [pc EXCEPT ![c] = "done"]
  /\ issuedBefore' = [issuedBefore EXCEPT !.fetch = FALSE]
  /\ UNCHANGED <<now, orderedPlotsCache, cacheTimestamp, waited, lastFetchAt,
                 lastFetchData, invalidatedSince, invalidatedPending>>

\* the fetch rejects, the status is not OK, or the body does not parse: the
\* catch block answers from the cache
FetchFail(c) ==
  /\ pc[c] = "fetch"
  /\ result' = [result EXCEPT ![c] =
                  IF Len(orderedPlotsCache) > 0 THEN orderedPlotsCache ELSE <<>>]
  /\ outcome' = [outcome EXCEPT ![c] = "failed"]
  /\ isLoading' = FALSE
  /\ pc' = [pc EXCEPT ![c] = "done"]
  /\ issuedBefore' = [issuedBefore EXCEPT !.fetch = FALSE]
  /\ UNCHANGED <<now, orderedPlotsCache, cacheTimestamp, waited, lastFetchAt,
                 lastFetchData, invalidatedSince, invalidatedPending>>

\* PlotManagementService.invalidateCache
invalidateCache ==
  /\ orderedPlotsCache' = <<>>
  /\ cacheTimestamp' = 0
  /\ invalidatedSince' = TRUE
  /\ invalidatedPending' = TRUE
  /\ issuedBefore' = [fetch |-> inflight # {}, cache |-> FALSE]
  /\ UNCHANGED <<now, isLoading, pc, result, outcome, waited, lastFetchAt,
                 lastFetchData>>

\* the caller has consumed the resolved promise
Return(c) ==
  /\ pc[c] = "done"
  /\ pc' = [pc EXCEPT ![c] = "idle"]
  /\ result' = [result EXCEPT ![c] = <<>>]
  /\ outcome' = [outcome EXCEPT ![c] = "none"]
  /\ waited' = [waited EXCEPT ![c] = FALSE]
  /\ UNCHANGED <<now, orderedPlotsCache, cacheTimestamp, isLoading, lastFetchAt,
                 lastFetchData, invalidatedSince, invalidatedPending,
                 issuedBefore>>

\* the clock advances; a waiter whose 100 ms timer is due runs first
Tick ==
  /\ now < StartNow + MaxTicks * TickMs
  /\ ~(\E c \in Callers : pc[c] = "wait" /\ ~isLoading)
  /\ now' = now + TickMs
  /\ UNCHANGED <<orderedPlotsCache, cacheTimestamp, isLoading, pc, result,
                 outcome, waited, lastFetchAt, lastFetchData, invalidatedSince,
                 invalidatedPending, issuedBefore>>

Next ==
  \/ (\E c \in Callers : Call(c)) /\ UNCHANGED <<enrichVars, mapVars, uiVars>>
  \/ (\E c \in Callers : WaitPoll(c)) /\ UNCHANGED <<enrichVars, mapVars, uiVars>>
  \/ /\ inflight # {}
     /\ \E c \in Callers : \E data \in ServerData(CacheResponses) : FetchOk(c, data)
     /\ UNCHANGED <<enrichVars, mapVars, uiVars>>
  \/ (\E c \in Callers : FetchFail(c)) /\ UNCHANGED <<enrichVars, mapVars, uiVars>>
  \/ (\E c \in Callers : Return(c)) /\ UNCHANGED <<enrichVars, mapVars, uiVars>>
  \/ invalidateCache /\ UNCHANGED <<enrichVars, mapVars, uiVars>>
  \/ Tick /\ UNCHANGED <<enrichVars, mapVars, uiVars>>

Spec == Init /\ [][Next]_vars

\* ------------------------------------------------------------ enrichment

\* PlotManagementService.getPlotStatusFromOrder
getPlotStatusFromOrder(orderStatus) ==
  CASE orderStatus = "pending" -> "pending"
    [] orderStatus = "approved" -> "taken"
    [] orderStatus = "rejected" -> "available"
    [] OTHER -> "available"

\* new Map(orderedPlots.map(op => [op.plot_id, op])): has and get.  A later
\* pair with the same key replaces the earlier one.
MapHas(orderedPlots, id) ==
  \E i \in 1..Len(orderedPlots) : orderedPlots[i].plot_id = id

MapGet(orderedPlots, id) ==
  orderedPlots[CHOOSE i \in 1..Len(orderedPlots) :
                 /\ orderedPlots[i].plot_id = id
                 /\ \A j \in (i + 1)..Len(orderedPlots) : orderedPlots[j].plot_id # id]

\* the record the map callback builds for a plot without order information
Unordered(plot) ==
  [id |-> plot.id, status |-> plot.status, hasActiveOrder |-> FALSE,
   orderStatus |-> Undefined, orderDate |-> NoDate, customerName |-> Undefined]

\* a map callback that flags only pending and approved orders as active
EnrichPlot_ActiveOnly(plot, orderedPlots) ==
  IF MapHas(orderedPlots, plot.id)
    THEN LET orderInfo == MapGet(orderedPlots, plot.id) IN
           [id |-> plot.id,
            status |-> getPlotStatusFromOrder(orderInfo.order_status),
            hasActiveOrder |-> orderInfo.order_status \in {"pending", "approved"},
            orderStatus |-> orderInfo.order_status,
            orderDate |-> orderInfo.order_date,
            customerName |-> orderInfo.customer_name]
    ELSE Unordered(plot)

\* a map callback that leaves the status of an ordered plot as it was
EnrichPlot_KeepStatus(plot, orderedPlots) ==
  IF MapHas(orderedPlots, plot.id)
    THEN LET orderInfo == MapGet(orderedPlots, plot.id) IN
           [id |-> plot.id,
            status |-> plot.status,
            hasActiveOrder |-> TRUE,
            orderStatus |-> orderInfo.order_status,
            orderDate |-> orderInfo.order_date,
            customerName |-> orderInfo.customer_name]
    ELSE Unordered(plot)

\* the callback of plots.map in enrichPlotsWithOrderStatus
EnrichPlot(plot, orderedPlots) ==
  IF MapHas(orderedPlots, plot.id)
    THEN LET orderInfo == MapGet(orderedPlots, plot.id) IN
           [id |-> plot.id,
            status |-> getPlotStatusFromOrder(orderInfo.order_status),
            hasActiveOrder |-> TRUE,
            orderStatus |-> orderInfo.order_status,
            orderDate |-> orderInfo.order_date,
            customerName |-> orderInfo.customer_name]
    ELSE Unordered(plot)

\* the try block throws when an element of the list is null (op.plot_id)
EnrichThrows(orderedPlots) ==
  \E i \in 1..Len(orderedPlots) : orderedPlots[i] = NullEntry

\* the catch block: plots.map(plot => ({ ...plot, hasActiveOrder: false }))
EnrichFallback(plotList) == [i \in 1..Len(plotList) |-> Unordered(plotList[i])]

\* enrichPlotsWithOrderStatus without its catch block
enrichPlotsWithOrderStatus_NoCatch(plotList, orderedPlots) ==
  IF EnrichThrows(orderedPlots)
    THEN [rejected |-> TRUE, value |-> <<>>]
    ELSE [rejected |-> FALSE,
          value |-> [i \in 1..Len(plotList) |-> EnrichPlot(plotList[i], orderedPlots)]]

\* enrichPlotsWithOrderStatus after getOrderedPlots has resolved
enrichPlotsWithOrderStatus(plotList, orderedPlots) ==
  IF EnrichThrows(orderedPlots)
    THEN [rejected |-> FALSE, value |-> EnrichFallback(plotList)]
    ELSE [rejected |-> FALSE,
          value |-> [i \in 1..Len(plotList) |-> EnrichPlot(plotList[i], orderedPlots)]]

\* the service call that the enrichment awaits
EnrichCaller == 1

\* enrichPlotsWithOrderStatus(plotList) up to the await of getOrderedPlots
EnrichStart(plotList) ==
  /\ epc = "idle"
  /\ Call(EnrichCaller)
  /\ plotsIn' = plotList
  /\ epc' = "awaiting"
  /\ UNCHANGED <<enriched, mapVars, uiVars>>

\* getOrderedPlots has resolved: the rest of enrichPlotsWithOrderStatus
EnrichFinish ==
  /\ epc = "awaiting"
  /\ pc[EnrichCaller] = "done"
  /\ enriched' = enrichPlotsWithOrderStatus(plotsIn, result[EnrichCaller])
  /\ epc' = "done"
  /\ UNCHANGED <<svcVars, plotsIn, mapVars, uiVars>>

\* the caller has consumed the enriched list
EnrichReturn ==
  /\ epc = "done"
  /\ Return(EnrichCaller)
  /\ epc' = "idle"
  /\ plotsIn' = <<>>
  /\ enriched' = NotSettled
  /\ UNCHANGED <<mapVars, uiVars>>

NextEnrich ==
  \/ epc = "idle" /\ \E plotList \in PlotInputs : EnrichStart(plotList)
  \/ /\ pc[EnrichCaller] = "fetch"
     /\ \E data \in ServerData(EnrichResponses) : FetchOk(EnrichCaller, data)
     /\ UNCHANGED <<enrichVars, mapVars, uiVars>>
  \/ FetchFail(EnrichCaller) /\ UNCHANGED <<enrichVars, mapVars, uiVars>>
  \/ EnrichFinish
  \/ EnrichReturn

SpecEnrich == Init /\ [][NextEnrich]_vars

\* ------------------------------------------------- MapView order submission

\* shouldShowOrderButton looking at the plot status only
shouldShowOrderButton_StatusOnly(plot) == plot.status = "available"

\* PlotManagementService.shouldShowOrderButton
shouldShowOrderButton(plot) ==
  IF plot.hasActiveOrder
    THEN plot.orderStatus = "rejected"
    ELSE plot.status = "available"

\* plot lists a completed load can have put into the MapView state: one plot
\* per id, without order fields or carrying the fields of one order
LoadedPlotLists ==
  {enrichPlotsWithOrderStatus(ps, ops).value :
     ps \in {q \in PlotInputs : Len(q) = 2 /\ q[1].id < q[2].id},
     ops \in {o \in SeqUpTo(EnrichEntries, 1) : \A j \in 1..Len(o) : o[j] # NullEntry}}

\* the order button of a plot's popup is clicked
SelectPlot(i) ==
  /\ i \in 1..Len(plots)
  /\ shouldShowOrderButton(plots[i])
  /\ plots[i].status = "available"
  /\ selectedPlot' = plots[i].id
  /\ isModalOpen' = TRUE
  /\ orderError' = "null"
  /\ UNCHANGED <<svcVars, enrichVars, uiVars, plots, orders, loadingRef, orderOutcome>>

\* PlotOrderModal onClose
CloseModal ==
  /\ isModalOpen
  /\ selectedPlot # NoPlot
  /\ selectedPlot' = NoPlot
  /\ isModalOpen' = FALSE
  /\ orderError' = "null"
  /\ UNCHANGED <<svcVars, enrichVars, uiVars, plots, orders, loadingRef, orderOutcome>>

\* the dismiss button of the order error notification
DismissOrderError ==
  /\ orderError # "null"
  /\ orderError' = "null"
  /\ UNCHANGED <<svcVars, enrichVars, uiVars, plots, selectedPlot, isModalOpen, orders,
                 loadingRef, orderOutcome>>

\* the record the optimistic update puts in place of the selected plot
OptimisticPlot(p, customerName) ==
  [p EXCEPT !.status = "pending", !.hasActiveOrder = TRUE,
            !.orderStatus = "pending", !.orderDate = now,
            !.customerName = customerName]

\* the free slot that records the next invocation
FreeSlot(k) ==
  /\ orders[k].pc = "idle"
  /\ \A j \in OrderSlots : j < k => orders[j].pc # "idle"

\* handleOrderSubmit up to the await of plotService.createOrder; the dialog
\* that calls it is rendered only while isModalOpen and selectedPlot are set
HandleOrderSubmit(k, customerName) ==
  /\ isModalOpen
  /\ FreeSlot(k)
  /\ IF selectedPlot = NoPlot
       THEN /\ orderError' = "No plot selected."
            /\ UNCHANGED <<plots, orders>>
       ELSE /\ orderError' = "null"
            /\ plots' = [i \in 1..Len(plots) |->
                           IF plots[i].id = selectedPlot
                             THEN OptimisticPlot(plots[i], customerName)
                             ELSE plots[i]]
            /\ orders' = [orders EXCEPT ![k] =
                            [pc |-> "inflight", plotId |-> selectedPlot,
                             originalPlots |-> plots, loaded |-> <<>>]]
  /\ UNCHANGED <<svcVars, enrichVars, uiVars, selectedPlot, isModalOpen, loadingRef,
                 orderOutcome>>

\* a success path that also starts a plot reload
CreateOrderOk_Reload(k) ==
  /\ orders[k].pc = "inflight"
  /\ invalidateCache
  /\ selectedPlot' = NoPlot
  /\ isModalOpen' = FALSE
  /\ orders' = [orders EXCEPT ![k] = NoOrder]
  /\ loadingRef' = TRUE
  /\ orderOutcome' = "ok"
  /\ UNCHANGED <<enrichVars, uiVars, plots, orderError>>

\* createOrder resolved: the rest of the try block of handleOrderSubmit
CreateOrderOk(k) ==
  /\ orders[k].pc = "inflight"
  /\ invalidateCache
  /\ selectedPlot' = NoPlot
  /\ isModalOpen' = FALSE
  /\ orders' = [orders EXCEPT ![k] = NoOrder]
  /\ orderOutcome' = "ok"
  /\ UNCHANGED <<enrichVars, uiVars, plots, orderError, loadingRef>>

\* a catch block that sets the message and leaves the optimistic list in place
CreateOrderFail_NoRevert(k) ==
  /\ orders[k].pc = "inflight"
  /\ orderError' = "Failed to submit order"
  /\ orders' = [orders EXCEPT ![k] = NoOrder]
  /\ orderOutcome' = "failed"
  /\ UNCHANGED <<svcVars, enrichVars, uiVars, plots, selectedPlot, isModalOpen, loadingRef>>

\* createOrder rejected: the catch block of handleOrderSubmit
CreateOrderFail(k) ==
  /\ orders[k].pc = "inflight"
  /\ plots' = orders[k].originalPlots
  /\ orderError' = "Failed to submit order"
  /\ orders' = [orders EXCEPT ![k] = NoOrder]
  /\ orderOutcome' = "failed"
  /\ UNCHANGED <<svcVars, enrichVars, uiVars, selectedPlot, isModalOpen, loadingRef>>

\* the state after a plot load: a plot list is shown and the order-status
\* cache is empty or holds a list fetched at StartNow
InitOrder ==
  /\ now = StartNow
  /\ \E l \in {<<>>, <<Entry(1, "pending", 1)>>} :
       /\ orderedPlotsCache = l
       /\ cacheTimestamp = IF l = <<>> THEN 0 ELSE StartNow
       /\ lastFetchAt = IF l = <<>> THEN -1 ELSE StartNow
       /\ lastFetchData = l
  /\ isLoading = FALSE
  /\ pc = [c \in Callers |-> "idle"]
  /\ result = [c \in Callers |-> <<>>]
  /\ outcome = [c \in Callers |-> "none"]
  /\ waited = [c \in Callers |-> FALSE]
  /\ invalidatedSince = FALSE
  /\ invalidatedPending = FALSE
  /\ issuedBefore = [fetch |-> FALSE, cache |-> FALSE]
  /\ EnrichInit
  /\ plots \in LoadedPlotLists
  /\ selectedPlot = NoPlot
  /\ isModalOpen = FALSE
  /\ orderError = "null"
  /\ orders = [k \in OrderSlots |-> NoOrder]
  /\ loadingRef = FALSE
  /\ orderOutcome = "none"
  /\ UiInit

NextOrder ==
  \/ \E i \in 1..Len(plots) : SelectPlot(i)
  \/ CloseModal
  \/ DismissOrderError
  \/ \E k \in OrderSlots : \E customerName \in {"a", "b"} :
       HandleOrderSubmit(k, customerName)
  \/ \E k \in OrderSlots : CreateOrderOk(k)
  \/ \E k \in OrderSlots : CreateOrderFail(k)

SpecOrder == InitOrder /\ [][NextOrder]_vars

\* lists a reload can deliver for the plots shown: the same plots, none with
\* an order, the plots other users took in the meantime marked taken
ReloadedLists ==
  {l \in LoadedPlotLists :
     /\ Len(l) = Len(plots)
     /\ \A i \in 1..Len(l) :
          /\ l[i].id = plots[i].id
          /\ ~l[i].hasActiveOrder
          /\ l[i].status \in {plots[i].status, "taken"}}

\* a plot load started by the refresh control or a retry timer resolves while
\* an order request is in flight: loadPlots replaces the plot list
LoadCompletes(plotsData) ==
  /\ plotsData # plots
  /\ plots' = plotsData
  /\ orders' = [k \in OrderSlots |->
                  IF orders[k].pc = "inflight"
                    THEN [orders[k] EXCEPT !.loaded = plotsData]
                    ELSE orders[k]]
  /\ UNCHANGED <<svcVars, enrichVars, uiVars, selectedPlot, isModalOpen,
                 orderError, loadingRef, orderOutcome>>

NextOrderLoad ==
  \/ NextOrder
  \/ /\ \E k \in OrderSlots : orders[k].pc = "inflight" /\ orders[k].loaded = <<>>
     /\ \E plotsData \in ReloadedLists : LoadCompletes(plotsData)

\* order submissions with plot loads completing in between
SpecOrderLoad == InitOrder /\ [][NextOrderLoad]_vars

\* ------------------------------------------------- order button helpers

\* Plot.status values of types/plot.ts and the "taken" the enrichment writes
ButtonStatuses == {"available", "sold", "reserved", "pending", "taken"}

\* PlotWithOrderStatus as far as the button helpers read it
ButtonPlots ==
  [status : ButtonStatuses, hasActiveOrder : BOOLEAN,
   orderStatus : OrderStatuses \cup {Undefined}]

\* getOrderButtonText without the hasActiveOrder branch
getOrderButtonText_NoOrder(plot) ==
  IF plot.status = "available" THEN "Order This Plot" ELSE "Not Available"

\* PlotManagementService.getOrderButtonText
getOrderButtonText(plot) ==
  IF plot.hasActiveOrder
    THEN CASE plot.orderStatus = "pending" -> "Order Pending"
           [] plot.orderStatus = "approved" -> "Plot Taken"
           [] plot.orderStatus = "rejected" -> "Reorder Plot"
           [] OTHER -> "Order This Plot"
    ELSE IF plot.status = "available" THEN "Order This Plot" ELSE "Not Available"

\* a caller evaluates shouldShowOrderButton(btnPlot)
CallShouldShow ==
  /\ "show" \notin btnCalled
  /\ showButton' = shouldShowOrderButton(btnPlot)
  /\ btnCalled' = btnCalled \cup {"show"}
  /\ UNCHANGED <<btnPlot, buttonText>>

\* a caller evaluates getOrderButtonText(btnPlot)
CallButtonText ==
  /\ "text" \notin btnCalled
  /\ buttonText' = getOrderButtonText(btnPlot)
  /\ btnCalled' = btnCalled \cup {"text"}
  /\ UNCHANGED <<btnPlot, showButton>>

\* any plot of the type can be handed to the helpers
InitButton ==
  /\ SvcInit /\ EnrichInit /\ MapInit /\ LoadInit /\ MountInit /\ GeoInit /\ LabelInit /\ HookInit
  /\ btnPlot \in ButtonPlots
  /\ showButton = FALSE
  /\ buttonText = "none"
  /\ btnCalled = {}

NextButton ==
  \/ CallShouldShow /\ UNCHANGED <<svcVars, enrichVars, mapVars, loadVars, initVars, geoVars,
                               labelVars, hookVars>>
  \/ CallButtonText /\ UNCHANGED <<svcVars, enrichVars, mapVars, loadVars, initVars, geoVars,
                               labelVars, hookVars>>

SpecButton == InitButton /\ [][NextButton]_vars

\* ------------------------------------------------------- MapView plot loading

MaxLoads == 2        \* loadPlots chains (a fetch or its retry timer) at once
MaxLoadTicks == 6    \* clock ticks of retryDelayMs each

\* maxRetries of loadPlots
maxRetries == 3
\* the factor of the retry delay: setTimeout(..., 2000 * (retryCount + 1))
retryDelayMs == 2000

orderVars == <<selectedPlot, isModalOpen, orderError, orders, orderOutcome>>

\* a plot as getAllPlots delivers it; order is "absent" when the plot carries
\* no hasActiveOrder and orderStatus fields, geomOk is isValidGeometry of it
LoadedPlot(i, s, o, g) == [id |-> i, status |-> s, order |-> o, geomOk |-> g]

\* non-empty lists getAllPlots can resolve to
LoadResponses ==
  {<<LoadedPlot(1, "available", "absent", TRUE)>>,
   <<LoadedPlot(1, "taken", "approved", TRUE)>>,
   <<LoadedPlot(1, "available", "absent", FALSE)>>}

\* JSON.stringify(plots.map(p => ({id, status, hasActiveOrder, orderStatus})))
\* of the render effect; absent fields are left out by JSON.stringify
PlotsHash(plotList) ==
  [i \in 1..Len(plotList) |->
     <<plotList[i].id, plotList[i].status, plotList[i].order>>]

\* JSON.stringify(plotsData.map(p => ({id, status}))) of loadPlots
NewPlotsHash(plotList) ==
  [i \in 1..Len(plotList) |-> <<plotList[i].id, plotList[i].status, "absent">>]

RemoveAt(q, i) == [j \in 1..(Len(q) - 1) |-> IF j < i THEN q[j] ELSE q[j + 1]]

\* loadPlots(retryCount) up to its await: guardFlag is loadingRef.current as
\* the call finds it, errBefore the error state as the caller left it;
\* attempt and failedAt record the position in the retry chain
loadPlots(retryCount, attempt, failedAt, guardFlag, errBefore) ==
  IF guardFlag
    THEN /\ loadingRef' = TRUE
         /\ error' = errBefore
         /\ UNCHANGED <<loading, connectionStatus, fetches>>
    ELSE /\ loadingRef' = TRUE
         /\ loading' = TRUE
         /\ error' = "null"
         /\ connectionStatus' = "checking"
         /\ fetches' = Append(fetches, [retryCount |-> retryCount,
                                        attempt |-> attempt,
                                        startedAt |-> clock,
                                        failedAt |-> failedAt])

\* the effect on [isMapReady]
LoadEffect ==
  /\ loadEffectDue
  /\ loadEffectDue' = FALSE
  /\ IF isMapReady /\ plots = <<>> /\ ~loadingRef
       THEN loadPlots(0, 1, -1, loadingRef, error)
       ELSE UNCHANGED <<loadingRef, loading, error, connectionStatus, fetches>>
  /\ UNCHANGED <<plotLayer, clock, timers, renderEffectDue, lastPlotsHashRef, renderingRef,
                 view, mapViewStateRef, moveTimers, plots>>

\* handleRefresh of the map controls, shown once the map is ready; when the
\* map is busy it only logs
HandleRefresh ==
  /\ isMapReady
  /\ ~loadingRef /\ ~renderingRef
  /\ loadPlots(0, 1, -1, loadingRef, error)
  /\ UNCHANGED <<plotLayer, clock, timers, loadEffectDue, renderEffectDue, lastPlotsHashRef,
                 renderingRef, view, mapViewStateRef, moveTimers, plots>>

\* onClick of Try Again in the error overlay, load-error branch
TryAgainLoad ==
  /\ error # "null"
  /\ mapError = "null"
  /\ plots' = <<>>
  /\ renderEffectDue' = TRUE
  /\ loadPlots(0, 1, -1, loadingRef, "null")
  /\ UNCHANGED <<plotLayer, clock, timers, loadEffectDue, lastPlotsHashRef, renderingRef,
                 view, mapViewStateRef, moveTimers>>

\* timers fire in the order of their due time, then of their creation
FiresNext(i) ==
  /\ timers[i].due <= clock
  /\ \A j \in 1..Len(timers) :
       /\ timers[j].due >= timers[i].due
       /\ (j < i => timers[j].due > timers[i].due)

\* the callback of the retry setTimeout of loadPlots
RetryTimer(i) ==
  /\ FiresNext(i)
  /\ timers' = RemoveAt(timers, i)
  /\ loadPlots(timers[i].retryCount, timers[i].attempt, timers[i].failedAt,
               FALSE, error)
  /\ UNCHANGED <<plotLayer, clock, loadEffectDue, renderEffectDue, lastPlotsHashRef,
                 renderingRef, view, mapViewStateRef, moveTimers, plots>>

\* getAllPlots resolved with a non-empty list: the rest of loadPlots
LoadPlotsOk(i, plotsData) ==
  /\ fetches' = RemoveAt(fetches, i)
  /\ IF NewPlotsHash(plotsData) # lastPlotsHashRef
       THEN plots' = plotsData /\ renderEffectDue' = TRUE
       ELSE UNCHANGED <<plots, renderEffectDue>>
  /\ connectionStatus' = "connected"
  /\ loadingRef' = FALSE
  /\ UNCHANGED <<plotLayer, clock, loading, error, timers, loadEffectDue, lastPlotsHashRef,
                 renderingRef, view, mapViewStateRef, moveTimers>>

\* loadPlots retrying once more than maxRetries allows
LoadPlotsFail_OneMore(i) ==
  /\ fetches' = RemoveAt(fetches, i)
  /\ connectionStatus' = "disconnected"
  /\ IF fetches[i].retryCount <= maxRetries
       THEN /\ timers' = Append(timers,
                           [retryCount |-> fetches[i].retryCount + 1,
                            attempt |-> fetches[i].attempt + 1,
                            failedAt |-> clock,
                            due |-> clock + retryDelayMs * (fetches[i].retryCount + 1)])
            /\ UNCHANGED <<error, loading>>
       ELSE /\ error' = "Failed to load plots"
            /\ loading' = FALSE
            /\ UNCHANGED timers
  /\ loadingRef' = FALSE
  /\ UNCHANGED <<plotLayer, clock, loadEffectDue, renderEffectDue, lastPlotsHashRef,
                 renderingRef, view, mapViewStateRef, moveTimers, plots>>

\* getAllPlots rejected or resolved with an empty list: the catch and finally
\* blocks of loadPlots
LoadPlotsFail(i) ==
  /\ fetches' = RemoveAt(fetches, i)
  /\ connectionStatus' = "disconnected"
  /\ IF fetches[i].retryCount < maxRetries
       THEN /\ timers' = Append(timers,
                           [retryCount |-> fetches[i].retryCount + 1,
                            attempt |-> fetches[i].attempt + 1,
                            failedAt |-> clock,
                            due |-> clock + retryDelayMs * (fetches[i].retryCount + 1)])
            /\ UNCHANGED <<error, loading>>
       ELSE /\ error' = "Failed to load plots"
            /\ loading' = FALSE
            /\ UNCHANGED timers
  /\ loadingRef' = FALSE
  /\ UNCHANGED <<plotLayer, clock, loadEffectDue, renderEffectDue, lastPlotsHashRef,
                 renderingRef, view, mapViewStateRef, moveTimers, plots>>

\* renderPlots that leaves the previous plot layer on the map
renderPlots_NoRemove(plotsData, hashNow) ==
  IF mapRef = 0 \/ ~isMapReady \/ renderingRef
    THEN UNCHANGED <<mapViewStateRef, view, loading, renderingRef, plotLayer>>
    ELSE /\ mapViewStateRef' = view
         /\ IF SelectSeq(plotsData, LAMBDA p : p.geomOk) = <<>>
              THEN /\ view' = DefaultView
                   /\ plotLayer' = [plotLayer EXCEPT !.ref = FALSE]
              ELSE LET isFirstLoad == hashNow = NoHash
                   IN  /\ view' = IF isFirstLoad THEN DefaultView
                                  ELSE mapViewStateRef'
                       /\ plotLayer' = [ref |-> TRUE,
                                        attached |-> plotLayer.attached + 1,
                                        from |-> PlotsHash(plotsData)]
         /\ loading' = FALSE
         /\ renderingRef' = FALSE

\* renderPlots as the render effect calls it, hashNow being
\* lastPlotsHashRef.current at that moment
renderPlots(plotsData, hashNow) ==
  IF mapRef = 0 \/ ~isMapReady \/ renderingRef
    THEN UNCHANGED <<mapViewStateRef, view, loading, renderingRef, plotLayer>>
    ELSE LET removed == IF plotLayer.ref THEN plotLayer.attached - 1
                        ELSE plotLayer.attached
         IN
         /\ mapViewStateRef' = view
         /\ IF SelectSeq(plotsData, LAMBDA p : p.geomOk) = <<>>
              THEN /\ view' = DefaultView
                   /\ plotLayer' = [plotLayer EXCEPT !.ref = FALSE,
                                                     !.attached = removed]
              ELSE LET isFirstLoad == hashNow = NoHash
                   IN  /\ view' = IF isFirstLoad THEN DefaultView
                                  ELSE mapViewStateRef'
                       /\ plotLayer' = [ref |-> TRUE,
                                        attached |-> removed + 1,
                                        from |-> PlotsHash(plotsData)]
         /\ loading' = FALSE
         /\ renderingRef' = FALSE

\* the effect on [plots, isMapReady, renderPlots]
RenderEffect ==
  /\ renderEffectDue
  /\ renderEffectDue' = FALSE
  /\ IF isMapReady /\ plots # <<>> /\ ~renderingRef
        /\ PlotsHash(plots) # lastPlotsHashRef
       THEN /\ lastPlotsHashRef' = PlotsHash(plots)
            /\ renderPlots(plots, lastPlotsHashRef')
       ELSE UNCHANGED <<lastPlotsHashRef, mapViewStateRef, view, loading,
                        renderingRef, plotLayer>>
  /\ UNCHANGED <<clock, error, connectionStatus, fetches, timers, loadEffectDue,
                 moveTimers, plots, loadingRef>>

\* the user pans or zooms the map: zoomstart/movestart, then zoomend/moveend
\* start the 100 ms unlock timer and the debounced handleMove timer
UserMove ==
  /\ mapRef > 0
  /\ view' \in Views \ {view}
  /\ renderingRef' = TRUE
  /\ moveTimers' = {"unlock"} \cup (IF isMapReady THEN {"view"} ELSE {})
  /\ UNCHANGED <<plotLayer, clock, loading, error, connectionStatus, fetches, timers,
                 loadEffectDue, renderEffectDue, lastPlotsHashRef,
                 mapViewStateRef, plots, loadingRef>>

\* the timer of the zoomend/moveend handler of initializeMap
UnlockTimer ==
  /\ "unlock" \in moveTimers
  /\ moveTimers' = moveTimers \ {"unlock"}
  /\ renderingRef' = FALSE
  /\ UNCHANGED <<plotLayer, clock, loading, error, connectionStatus, fetches, timers,
                 loadEffectDue, renderEffectDue, lastPlotsHashRef, view,
                 mapViewStateRef, plots, loadingRef>>

\* the debounced body of handleMove
HandleMoveTimer ==
  /\ "view" \in moveTimers
  /\ moveTimers' = moveTimers \ {"view"}
  /\ mapViewStateRef' = view
  /\ UNCHANGED <<plotLayer, clock, loading, error, connectionStatus, fetches, timers,
                 loadEffectDue, renderEffectDue, lastPlotsHashRef, view,
                 renderingRef, plots, loadingRef>>

\* time passes; a timer that is due fires first
LoadTick ==
  /\ clock < MaxLoadTicks * retryDelayMs
  /\ \A j \in 1..Len(timers) : timers[j].due > clock
  /\ clock' = clock + retryDelayMs
  /\ UNCHANGED <<plotLayer, loading, error, connectionStatus, fetches, timers,
                 loadEffectDue, renderEffectDue, lastPlotsHashRef, renderingRef,
                 view, mapViewStateRef, moveTimers, plots, loadingRef>>

\* the map has just become ready: both effects are due
InitLoad ==
  /\ SvcInit /\ EnrichInit /\ MapInit /\ BtnInit /\ GeoInit /\ LabelInit /\ HookInit
  /\ clock = 0
  /\ loading = TRUE
  /\ error = "null"
  /\ connectionStatus = "checking"
  /\ fetches = <<>>
  /\ timers = <<>>
  /\ loadEffectDue = TRUE
  /\ renderEffectDue = TRUE
  /\ lastPlotsHashRef = NoHash
  /\ renderingRef = FALSE
  /\ view = DefaultView
  /\ mapViewStateRef = DefaultView
  /\ moveTimers = {}
  /\ plotLayer = NoLayer
  /\ containerZero = FALSE
  /\ mapRef = 1
  /\ initializingRef = FALSE
  /\ isMapReady = TRUE
  /\ mapError = "null"
  /\ initTimer = 0
  /\ readyTimer = 0
  /\ mountEffectDue = FALSE
  /\ zeroAttempts = 0
  /\ leafletMaps = 1
  /\ containerRef = TRUE

loadFrame == <<svcVars, enrichVars, orderVars, btnVars, initVars, geoVars,
               labelVars, hookVars>>

\* a new loadPlots chain can start
RoomForLoad == Len(fetches) + Len(timers) < MaxLoads

NextLoad ==
  \/ LoadEffect /\ UNCHANGED loadFrame
  \/ RoomForLoad /\ HandleRefresh /\ UNCHANGED loadFrame
  \/ RoomForLoad /\ TryAgainLoad /\ UNCHANGED loadFrame
  \/ (\E i \in 1..Len(timers) : RetryTimer(i)) /\ UNCHANGED loadFrame
  \/ /\ \E i \in 1..Len(fetches) : \E plotsData \in LoadResponses :
          LoadPlotsOk(i, plotsData)
     /\ UNCHANGED loadFrame
  \/ (\E i \in 1..Len(fetches) : LoadPlotsFail(i)) /\ UNCHANGED loadFrame
  \/ RenderEffect /\ UNCHANGED loadFrame
  \/ LoadTick /\ UNCHANGED loadFrame

\* loading and retrying over time, the user leaving the map where it is
SpecLoad == InitLoad /\ [][NextLoad]_vars

NextRender ==
  \/ LoadEffect /\ UNCHANGED loadFrame
  \/ RoomForLoad /\ HandleRefresh /\ UNCHANGED loadFrame
  \/ /\ \E i \in 1..Len(fetches) : \E plotsData \in LoadResponses :
          LoadPlotsOk(i, plotsData)
     /\ UNCHANGED loadFrame
  \/ (\E i \in 1..Len(fetches) : LoadPlotsFail(i)) /\ UNCHANGED loadFrame
  \/ RenderEffect /\ UNCHANGED loadFrame
  \/ UserMove /\ UNCHANGED loadFrame
  \/ UnlockTimer /\ UNCHANGED loadFrame
  \/ HandleMoveTimer /\ UNCHANGED loadFrame

\* loading and rendering while the user moves the map, within the first
\* retryDelayMs after the map became ready (no retry timer is due yet)
SpecRender == InitLoad /\ [][NextRender]_vars

\* ------------------------------------------------- MapView map initialization

MaxReadyTimers == 2    \* ready timeouts of initializeMap pending at once
ZeroAttemptsMod == 3   \* zeroAttempts counts modulo this number

\* the body of initializeMap: mapNow, initNow, errNow, timersNow, mapsNow are
\* mapRef.current, initializingRef.current, mapError, the pending
\* setTimeout(initializeMap) count and the live Leaflet maps as the caller
\* left them; throws says whether the Leaflet constructor throws
initializeMap(mapNow, initNow, errNow, timersNow, mapsNow, throws) ==
  IF ~containerRef \/ mapNow > 0 \/ initNow
    THEN /\ mapRef' = mapNow /\ initializingRef' = initNow /\ mapError' = errNow
         /\ initTimer' = timersNow /\ leafletMaps' = mapsNow
         /\ UNCHANGED <<readyTimer, view, zeroAttempts>>
    ELSE IF containerZero
      THEN /\ initializingRef' = FALSE
           /\ initTimer' = timersNow + 1
           /\ zeroAttempts' = (zeroAttempts + 1) % ZeroAttemptsMod
           /\ mapRef' = mapNow /\ mapError' = errNow /\ leafletMaps' = mapsNow
           /\ UNCHANGED <<readyTimer, view>>
      ELSE IF throws
        THEN /\ mapError' = "Failed to initialize map"
             /\ initializingRef' = FALSE
             /\ mapRef' = mapNow
             /\ initTimer' = timersNow
             /\ leafletMaps' = mapsNow
             /\ UNCHANGED <<readyTimer, view, zeroAttempts>>
        ELSE /\ mapRef' = 1
             /\ leafletMaps' = mapsNow + 1
             /\ view' = DefaultView
             /\ initializingRef' = TRUE
             /\ readyTimer' = readyTimer + 1
             /\ mapError' = errNow
             /\ initTimer' = timersNow
             /\ UNCHANGED zeroAttempts

\* the mount effect
MountEffect(throws) ==
  /\ mountEffectDue
  /\ containerRef
  /\ mountEffectDue' = FALSE
  /\ IF mapRef = 0 /\ ~initializingRef
       THEN initializeMap(mapRef, initializingRef, mapError, initTimer,
                          leafletMaps, throws)
       ELSE UNCHANGED <<mapRef, initializingRef, mapError, initTimer,
                        readyTimer, view, zeroAttempts, leafletMaps>>
  /\ UNCHANGED <<containerZero, containerRef, isMapReady, error, plots,
                 loadEffectDue, renderEffectDue>>

\* the callback of setTimeout(initializeMap, 100)
InitTimer(throws) ==
  /\ initTimer > 0
  /\ initializeMap(mapRef, initializingRef, mapError, initTimer - 1,
                   leafletMaps, throws)
  /\ UNCHANGED <<mountEffectDue, containerZero, containerRef, isMapReady,
                 error, plots, loadEffectDue, renderEffectDue>>

\* a change of isMapReady makes the effects that depend on it run
ReadyChanged(readyNow) ==
  IF readyNow # isMapReady
    THEN loadEffectDue' = TRUE /\ renderEffectDue' = TRUE
    ELSE UNCHANGED <<loadEffectDue, renderEffectDue>>

\* the 500 ms timeout at the end of initializeMap
ReadyTimer ==
  /\ readyTimer > 0
  /\ readyTimer' = readyTimer - 1
  /\ IF initializingRef
       THEN /\ isMapReady' = TRUE
            /\ mapError' = "null"
            /\ initializingRef' = FALSE
            /\ ReadyChanged(TRUE)
       ELSE UNCHANGED <<isMapReady, mapError, initializingRef, loadEffectDue,
                        renderEffectDue>>
  /\ UNCHANGED <<mountEffectDue, containerZero, containerRef, mapRef,
                 leafletMaps, initTimer, view, zeroAttempts, error, plots>>

\* the handler of the map's load event
MapLoadEvent ==
  /\ mapRef > 0
  /\ ~isMapReady
  /\ isMapReady' = TRUE
  /\ mapError' = "null"
  /\ initializingRef' = FALSE
  /\ ReadyChanged(TRUE)
  /\ UNCHANGED <<mountEffectDue, containerZero, containerRef, mapRef,
                 leafletMaps, initTimer, readyTimer, view, zeroAttempts, error,
                 plots>>

\* the handler of the map's error event
MapErrorEvent ==
  /\ mapRef > 0
  /\ mapError' = "Map failed to load properly"
  /\ initializingRef' = FALSE
  /\ UNCHANGED <<mountEffectDue, containerZero, containerRef, mapRef,
                 leafletMaps, isMapReady, initTimer, readyTimer, view,
                 zeroAttempts, error, plots, loadEffectDue, renderEffectDue>>

\* Try Again that forgets mapRef.current without calling remove() on the map
TryAgainMap_NoRemove(throws) ==
  /\ containerRef
  /\ mapError # "null"
  /\ error' = "null"
  /\ plots' = <<>>
  /\ isMapReady' = FALSE
  /\ renderEffectDue' = TRUE
  /\ loadEffectDue' = (loadEffectDue \/ isMapReady)
  /\ initializeMap(0, FALSE, "null", initTimer, leafletMaps, throws)
  /\ UNCHANGED <<mountEffectDue, containerZero, containerRef>>

\* onClick of Try Again in the error overlay, map-error branch
TryAgainMap(throws) ==
  /\ containerRef
  /\ mapError # "null"
  /\ error' = "null"
  /\ plots' = <<>>
  /\ isMapReady' = FALSE
  /\ renderEffectDue' = TRUE
  /\ loadEffectDue' = (loadEffectDue \/ isMapReady)
  /\ initializeMap(0, FALSE, "null", initTimer, leafletMaps - mapRef, throws)
  /\ UNCHANGED <<mountEffectDue, containerZero, containerRef>>

\* layout gives the container a size, or takes it away
ContainerResize ==
  /\ containerRef
  /\ containerZero' = ~containerZero
  /\ UNCHANGED <<mountEffectDue, containerRef, mapRef, leafletMaps,
                 initializingRef, isMapReady, mapError, initTimer, readyTimer,
                 view, zeroAttempts, error, plots, loadEffectDue,
                 renderEffectDue>>

\* MapView is unmounted: React clears containerRef and runs the cleanup of the
\* mount effect
Unmount ==
  /\ containerRef
  /\ ~mountEffectDue
  /\ containerRef' = FALSE
  /\ leafletMaps' = leafletMaps - mapRef
  /\ mapRef' = 0
  /\ isMapReady' = FALSE
  /\ initializingRef' = FALSE
  /\ UNCHANGED <<mountEffectDue, containerZero, mapError, initTimer,
                 readyTimer, view, zeroAttempts, error, plots, loadEffectDue,
                 renderEffectDue>>

\* MapView mounted, its container laid out or not
InitMount ==
  /\ SvcInit /\ EnrichInit /\ MapInit /\ BtnInit /\ LoadInit /\ GeoInit /\ LabelInit /\ HookInit
  /\ containerZero \in BOOLEAN
  /\ mapRef = 0
  /\ initializingRef = FALSE
  /\ isMapReady = FALSE
  /\ mapError = "null"
  /\ initTimer = 0
  /\ readyTimer = 0
  /\ mountEffectDue = TRUE
  /\ zeroAttempts = 0
  /\ leafletMaps = 0
  /\ containerRef = TRUE

\* the cleanup of the mount effect also clears renderingRef and loadingRef,
\* which no action of this specification sets
initFrame == <<svcVars, enrichVars, orderVars, btnVars, geoVars, labelVars,
               hookVars, loadingRef, clock,
               loading, connectionStatus, fetches, timers, lastPlotsHashRef,
               renderingRef, mapViewStateRef, moveTimers, plotLayer>>

NextInit ==
  \/ (\E throws \in BOOLEAN : MountEffect(throws)) /\ UNCHANGED initFrame
  \/ (\E throws \in BOOLEAN : InitTimer(throws)) /\ UNCHANGED initFrame
  \/ ReadyTimer /\ UNCHANGED initFrame
  \/ MapLoadEvent /\ UNCHANGED initFrame
  \/ MapErrorEvent /\ UNCHANGED initFrame
  \/ /\ readyTimer < MaxReadyTimers
     /\ \E throws \in BOOLEAN : TryAgainMap(throws)
     /\ UNCHANGED initFrame
  \/ ContainerResize /\ UNCHANGED initFrame
  \/ Unmount /\ UNCHANGED initFrame

SpecInit == InitMount /\ [][NextInit]_vars

\* timers that were set do fire
SpecInitFair ==
  SpecInit /\ WF_vars((\E throws \in BOOLEAN : InitTimer(throws)) /\ UNCHANGED initFrame)

\* ------------------------------------------------- geometry validation

MaxRingLen == 4    \* points per ring of the enumerated geometries

\* A coordinate value is [kind, d, t]: kind is what typeof and isFinite see;
\* a finite value is d / 20 degrees plus t * 5e-11 degrees, with |t| small, so
\* values compare by d first and by t next.
Num(d, t) == [kind |-> "finite", d |-> d, t |-> t]
NaN == [kind |-> "NaN", d |-> 0, t |-> 0]

\* 180 and 90 degrees, the clamping limits of normalizeCoordinate
LngLimit == 3600
LatLimit == 1800
\* 180.1 and 90.1 degrees, the limits of isValidCoordinate
LngTolerance == 3602
LatTolerance == 1802
\* 1e-10 degrees, the closing threshold, in units of t
CloseThreshold == 2

Lt(a, b) == a.d < b.d \/ (a.d = b.d /\ a.t < b.t)

\* Math.abs(a - b) > 1e-10
AbsDiffExceeds(a, b) ==
  \/ a.d # b.d
  \/ a.t - b.t > CloseThreshold
  \/ b.t - a.t > CloseThreshold

\* isValidCoordinate accepting only values inside the geographic bounds
isValidCoordinate_NoTolerance(coord) ==
  /\ Len(coord) >= 2
  /\ coord[1].kind = "finite" /\ coord[2].kind = "finite"
  /\ ~Lt(coord[1], Num(0 - LngLimit, 0)) /\ ~Lt(Num(LngLimit, 0), coord[1])
  /\ ~Lt(coord[2], Num(0 - LatLimit, 0)) /\ ~Lt(Num(LatLimit, 0), coord[2])

\* isValidCoordinate of isValidGeometry
isValidCoordinate(coord) ==
  /\ Len(coord) >= 2
  /\ coord[1].kind = "finite" /\ coord[2].kind = "finite"
  /\ ~Lt(coord[1], Num(0 - LngTolerance, 0)) /\ ~Lt(Num(LngTolerance, 0), coord[1])
  /\ ~Lt(coord[2], Num(0 - LatTolerance, 0)) /\ ~Lt(Num(LatTolerance, 0), coord[2])

\* Math.max(-limit, Math.min(limit, v))
Clamp(v, limit) ==
  IF Lt(Num(limit, 0), v) THEN Num(limit, 0)
  ELSE IF Lt(v, Num(0 - limit, 0)) THEN Num(0 - limit, 0)
  ELSE v

\* normalizeCoordinate returning its argument
normalizeCoordinate_NoClamp(coord) == <<coord[1], coord[2]>>

\* normalizeCoordinate of isValidGeometry
normalizeCoordinate(coord) == <<Clamp(coord[1], LngLimit), Clamp(coord[2], LatLimit)>>

\* the ring callback without the closing step
ValidateRing_NoClose(ring) ==
  IF Len(ring) < 4 THEN [ok |-> FALSE, ring |-> ring]
  ELSE
    LET bad == {i \in 1..Len(ring) : ~isValidCoordinate(ring[i])}
    IN  IF bad # {}
          THEN LET k == CHOOSE i \in bad : \A j \in bad : i <= j
               IN  [ok |-> FALSE,
                    ring |-> [i \in 1..Len(ring) |->
                                IF i < k THEN normalizeCoordinate(ring[i])
                                         ELSE ring[i]]]
          ELSE [ok |-> TRUE,
                ring |-> [i \in 1..Len(ring) |-> normalizeCoordinate(ring[i])]]

\* the callback isValidGeometry runs on every ring: the result and the ring as
\* the callback leaves it (a ring is normalized up to its first invalid point)
ValidateRing(ring) ==
  IF Len(ring) < 4 THEN [ok |-> FALSE, ring |-> ring]
  ELSE
    LET bad == {i \in 1..Len(ring) : ~isValidCoordinate(ring[i])}
    IN  IF bad # {}
          THEN LET k == CHOOSE i \in bad : \A j \in bad : i <= j
               IN  [ok |-> FALSE,
                    ring |-> [i \in 1..Len(ring) |->
                                IF i < k THEN normalizeCoordinate(ring[i])
                                         ELSE ring[i]]]
          ELSE LET norm == [i \in 1..Len(ring) |-> normalizeCoordinate(ring[i])]
                   first == norm[1]
                   last == norm[Len(ring)]
               IN  [ok |-> TRUE,
                    ring |-> IF AbsDiffExceeds(first[1], last[1])
                                \/ AbsDiffExceeds(first[2], last[2])
                               THEN [norm EXCEPT ![Len(ring)] = <<first[1], first[2]>>]
                               ELSE norm]

\* rings.every(callback): the callback runs up to the first ring it rejects
EveryRing(rings) ==
  LET res == [i \in 1..Len(rings) |-> ValidateRing(rings[i])]
      bad == {i \in 1..Len(rings) : ~res[i].ok}
      k == IF bad = {} THEN Len(rings) + 1
                       ELSE CHOOSE i \in bad : \A j \in bad : i <= j
  IN  [ok |-> bad = {},
       rings |-> [i \in 1..Len(rings) |-> IF i <= k THEN res[i].ring ELSE rings[i]]]

\* coordinates.every(polygon => polygon.length > 0 && polygon.every(callback))
EveryPolygon(polygons) ==
  LET res == [i \in 1..Len(polygons) |->
                IF polygons[i] = <<>> THEN [ok |-> FALSE, rings |-> <<>>]
                                      ELSE EveryRing(polygons[i])]
      bad == {i \in 1..Len(polygons) : ~res[i].ok}
      k == IF bad = {} THEN Len(polygons) + 1
                       ELSE CHOOSE i \in bad : \A j \in bad : i <= j
  IN  [ok |-> bad = {},
       polygons |-> [i \in 1..Len(polygons) |->
                       IF i <= k THEN res[i].rings ELSE polygons[i]]]

\* isValidGeometry: what it returns and the coordinates as it leaves them;
\* a geometry is [type, present, coordinates], present saying that the
\* coordinates member exists
isValidGeometry(g) ==
  IF ~g.present THEN [ok |-> FALSE, coordinates |-> g.coordinates]
  ELSE IF g.type = "Polygon" THEN
    IF g.coordinates = <<>> THEN [ok |-> FALSE, coordinates |-> <<>>]
    ELSE LET r == EveryRing(g.coordinates)
         IN  [ok |-> r.ok, coordinates |-> r.rings]
  ELSE IF g.type = "MultiPolygon" THEN
    IF g.coordinates = <<>> THEN [ok |-> FALSE, coordinates |-> <<>>]
    ELSE LET r == EveryPolygon(g.coordinates)
         IN  [ok |-> r.ok, coordinates |-> r.polygons]
  ELSE [ok |-> FALSE, coordinates |-> g.coordinates]

\* points of the enumerated rings: corners of a one-degree square, a point
\* 5e-11 and one 1.5e-10 east of the origin, a point inside the tolerance band
\* (180.1, -90.05), one 5e-11 beyond it, a NaN latitude, a position with
\* altitude and a one-entry array
P00 == <<Num(0, 0), Num(0, 0)>>
P10 == <<Num(20, 0), Num(0, 0)>>
P11 == <<Num(20, 0), Num(20, 0)>>
PNear == <<Num(0, 1), Num(0, 0)>>
PFar == <<Num(0, 3), Num(0, 0)>>
PBand == <<Num(LngTolerance, 0), Num(0 - LatTolerance + 1, 0)>>
POut == <<Num(LngTolerance, 1), Num(0, 0)>>
PNaN == <<Num(0, 0), NaN>>
PAlt == <<Num(20, 0), Num(20, 0), Num(0, 0)>>
POne == <<Num(0, 0)>>

PointInputs == {P00, P10, P11, PNear, PFar, PBand, POut, PNaN, PAlt, POne}

RingInputs == UNION {[1..n -> PointInputs] : n \in 3..MaxRingLen}

\* rings for geometries of several rings: closed, open, in the band, invalid,
\* too short
SampleRings ==
  {<<P00, P10, P11, P00>>, <<P00, P10, P11, P10>>, <<PBand, P10, P11, PBand>>,
   <<P00, POut, P11, P00>>, <<P00, P10, P00>>}

Geometry(type, present, coordinates) ==
  [type |-> type, present |-> present, coordinates |-> coordinates]

GeometryInputs ==
  {Geometry("Polygon", TRUE, <<r>>) : r \in RingInputs}
    \cup {Geometry("Polygon", TRUE, <<a, b>>) : a, b \in SampleRings}
    \cup {Geometry("MultiPolygon", TRUE, <<<<a>>, <<b>>>>) : a, b \in SampleRings}
    \cup {Geometry("MultiPolygon", TRUE, <<<<a, b>>>>) : a, b \in SampleRings}
    \cup {Geometry("MultiPolygon", TRUE, <<<<a>>, <<>>>>) : a \in SampleRings}
    \cup {Geometry(type, present, <<>>) :
            type \in {"Polygon", "MultiPolygon", "Point"}, present \in BOOLEAN}
    \cup {Geometry("LineString", TRUE, <<r>>) : r \in SampleRings}

\* renderPlots filters a plot by isValidGeometry(plot.geometry)
CallIsValidGeometry ==
  /\ geomResult = "none"
  /\ LET res == isValidGeometry(geometry)
     IN  /\ geomResult' = IF res.ok THEN "true" ELSE "false"
         /\ geometry' = [geometry EXCEPT !.coordinates = res.coordinates]
  /\ UNCHANGED <<geometryIn, centroidIn, centroid>>

\* any geometry the backend can deliver
InitGeom ==
  /\ SvcInit /\ EnrichInit /\ MapInit /\ BtnInit /\ LoadInit /\ MountInit
  /\ LabelInit /\ HookInit
  /\ geometryIn \in GeometryInputs
  /\ geometry = geometryIn
  /\ geomResult = "none"
  /\ centroidIn = [unit |-> "deg", ring |-> <<>>]
  /\ centroid = <<>>

NextGeom ==
  \/ CallIsValidGeometry /\ UNCHANGED <<svcVars, enrichVars, mapVars, btnVars,
                                       loadVars, initVars, labelVars, hookVars>>

SpecGeom == InitGeom /\ [][NextGeom]_vars

\* ------------------------------------------------- polygon centroid

MaxCoord == 2    \* largest coordinate of the enumerated rings, in units

\* A ring handed to getPolygonCentroid is [unit, points]: the points are
\* integer pairs counted in the unit, which is one degree ("deg") or 5e-6
\* degrees ("fine"). Results are exact fractions [n, d] with d > 0.
Units == {"deg", "fine"}

\* 1e-10 square degrees in square units: the shoelace sum is an integer, so
\* below 1e-10 means 0 for degrees, and 1e-10 / 2.5e-11 = 4 for the fine unit
AreaThreshold(unit) == IF unit = "deg" THEN 1 ELSE 4

\* 180 and 90 degrees in units
LngLimitIn(unit) == IF unit = "deg" THEN 180 ELSE 36000000
LatLimitIn(unit) == IF unit = "deg" THEN 90 ELSE 18000000

Frac(n, d) == IF d < 0 THEN [n |-> 0 - n, d |-> 0 - d] ELSE [n |-> n, d |-> d]

Abs(v) == IF v < 0 THEN 0 - v ELSE v

\* Math.max(-limit, Math.min(limit, q)) on a fraction
ClampFrac(q, limit) ==
  LET floor == q.n \div q.d
  IN  IF floor > limit \/ (floor = limit /\ q.n % q.d # 0) THEN Frac(limit, 1)
      ELSE IF floor < 0 - limit THEN Frac(0 - limit, 1)
      ELSE q

RECURSIVE SumOver(_, _, _)
\* f(1) + ... + f(n) for f given as a sequence
SumOver(f, n, acc) == IF n = 0 THEN acc ELSE SumOver(f, n - 1, acc + f[n])

\* the arithmetic mean of the ring points, the closing point counted in the
\* sum and left out of the divisor
RingMean(ring) ==
  <<Frac(SumOver([i \in 1..Len(ring) |-> ring[i][1]], Len(ring), 0), Len(ring) - 1),
    Frac(SumOver([i \in 1..Len(ring) |-> ring[i][2]], Len(ring), 0), Len(ring) - 1)>>

\* getPolygonCentroid always taking the mean of the ring points
getPolygonCentroid_Mean(unit, coordinates) ==
  LET ring == coordinates[1]
  IN  IF Len(ring) < 4 THEN <<Frac(0, 1), Frac(0, 1)>> ELSE RingMean(ring)

\* getPolygonCentroid on coordinates counted in the unit
getPolygonCentroid(unit, coordinates) ==
  LET ring == coordinates[1]
  IN  IF Len(ring) < 4 THEN <<Frac(0, 1), Frac(0, 1)>>
      ELSE
        LET a == [i \in 1..(Len(ring) - 1) |->
                    ring[i][1] * ring[i + 1][2] - ring[i + 1][1] * ring[i][2]]
            area == SumOver(a, Len(ring) - 1, 0)
            x == SumOver([i \in 1..(Len(ring) - 1) |->
                            (ring[i][1] + ring[i + 1][1]) * a[i]],
                         Len(ring) - 1, 0)
            y == SumOver([i \in 1..(Len(ring) - 1) |->
                            (ring[i][2] + ring[i + 1][2]) * a[i]],
                         Len(ring) - 1, 0)
        IN  IF Abs(area) < AreaThreshold(unit)
              THEN RingMean(ring)
              ELSE \* area *= 0.5; x / (6 * area)
                   <<ClampFrac(Frac(x, 3 * area), LngLimitIn(unit)),
                     ClampFrac(Frac(y, 3 * area), LatLimitIn(unit))>>

CoordValues == (0 - 1)..MaxCoord

\* the closed ring around the rectangle [x1, x2] x [y1, y2], counter-clockwise
\* from its lower left corner
RectRing(x1, x2, y1, y2) ==
  <<<<x1, y1>>, <<x2, y1>>, <<x2, y2>>, <<x1, y2>>, <<x1, y1>>>>

\* the closed ring started at its k-th vertex
Rotate(ring, k) ==
  [i \in 1..Len(ring) |->
     IF i = Len(ring) THEN ring[k]
     ELSE ring[((k + i - 2) % (Len(ring) - 1)) + 1]]

\* the ring walked in the other direction
Reverse(ring) == [i \in 1..Len(ring) |-> ring[Len(ring) + 1 - i]]

\* axis-aligned rectangles, flat ones included, from every vertex and in both
\* directions
RectangleRings ==
  UNION {{Rotate(RectRing(x1, x2, y1, y2), k),
          Reverse(Rotate(RectRing(x1, x2, y1, y2), k))} :
           x1 \in CoordValues, x2 \in CoordValues,
           y1 \in CoordValues, y2 \in CoordValues, k \in 1..4}

\* the ring moved by (dx, dy)
Translate(ring, dx, dy) ==
  [i \in 1..Len(ring) |-> <<ring[i][1] + dx, ring[i][2] + dy>>]

\* the same rectangles, in degrees, moved up to the corner (180, 90) of the
\* valid range
EdgeRings ==
  {Translate(r, LngLimitIn("deg") - MaxCoord, LatLimitIn("deg") - MaxCoord) :
     r \in RectangleRings}

CentroidInputs ==
  {[unit |-> u, ring |-> r] : u \in Units, r \in RectangleRings}
    \cup {[unit |-> "deg", ring |-> r] : r \in EdgeRings}

NoCentroid == <<>>

\* createPlotLabels computes the label position of a plot
CallGetPolygonCentroid ==
  /\ centroid = NoCentroid
  /\ centroid' = getPolygonCentroid(centroidIn.unit, <<centroidIn.ring>>)
  /\ UNCHANGED centroidIn

InitCentroid ==
  /\ SvcInit /\ EnrichInit /\ MapInit /\ BtnInit /\ LoadInit /\ MountInit
  /\ LabelInit /\ HookInit
  /\ geometry = [type |-> "Point", present |-> FALSE, coordinates |-> <<>>]
  /\ geometryIn = geometry
  /\ geomResult = "none"
  /\ centroidIn \in CentroidInputs
  /\ centroid = NoCentroid

NextCentroid ==
  \/ CallGetPolygonCentroid /\ UNCHANGED <<svcVars, enrichVars, mapVars, btnVars,
                                          loadVars, initVars, labelVars,
                                          hookVars, geometry,
                                          geometryIn, geomResult>>

SpecCentroid == InitCentroid /\ [][NextCentroid]_vars

\* ----------------------------------------------------------- plot labels

MaxLabelCalls == 2   \* createPlotLabels calls

\* chunkSize of processLabelsInChunks
chunkSize == 50

\* numbers of plots with valid geometry handed to createPlotLabels: none, one,
\* one and two full chunks, and more than one and two chunks
PlotCounts ==
  {0, 1, chunkSize, chunkSize + 1, 2 * chunkSize, 2 * chunkSize + 1}

Min(a, b) == IF a < b THEN a ELSE b

\* the labels chunk.forEach adds for plots.slice(index, index + chunkSize)
LabelChunk(call, index, n) ==
  [call |-> call, lo |-> index + 1, hi |-> Min(index + chunkSize, n)]

\* processChunk of the given createPlotLabels call at the given index: the
\* labels go into the group labelLayerRef.current refers to when it runs
\* (target); frames are the callbacks still waiting
processChunk(call, index, n, target, groups, onMap, frames) ==
  /\ labelGroups' =
       IF index < n
         THEN [groups EXCEPT ![target] = @ \cup {LabelChunk(call, index, n)}]
         ELSE groups
  /\ IF index + chunkSize < n
       THEN /\ labelFrames' = Append(frames, [call |-> call,
                                              index |-> index + chunkSize,
                                              n |-> n])
            /\ labelsOnMap' = onMap
       ELSE /\ labelFrames' = frames
            /\ labelsOnMap' = onMap \cup {target}

\* createPlotLabels(plotsData) with n plots of valid geometry, the map zoomed
\* out below the label zoom or not
createPlotLabels(n, zoomLow) ==
  /\ labelCalls < MaxLabelCalls
  /\ IF mapRef = 0 \/ ~isMapReady \/ renderingRef
       THEN UNCHANGED labelVars
       ELSE LET call == labelCalls + 1
                onMap == labelsOnMap \ {labelLayerRef}
            IN  /\ labelCalls' = call
                /\ labelLayerRef' = call
                /\ IF zoomLow
                     THEN /\ labelGroups' = Append(labelGroups, {})
                          /\ labelsOnMap' = onMap \cup {call}
                          /\ UNCHANGED labelFrames
                     ELSE processChunk(call, 0, n, call,
                                       Append(labelGroups, {}), onMap,
                                       labelFrames)

\* the browser runs the oldest requestAnimationFrame(processChunk) callback
AnimationFrame ==
  /\ labelFrames # <<>>
  /\ LET t == Head(labelFrames)
     IN  processChunk(t.call, t.index, t.n, labelLayerRef, labelGroups,
                      labelsOnMap, Tail(labelFrames))
  /\ UNCHANGED <<labelLayerRef, labelCalls>>

labelFrame == <<svcVars, enrichVars, mapVars, btnVars, loadVars, initVars,
                geoVars, hookVars>>

NextLabels ==
  \/ /\ \E n \in PlotCounts : \E zoomLow \in BOOLEAN : createPlotLabels(n, zoomLow)
     /\ UNCHANGED labelFrame
  \/ AnimationFrame /\ UNCHANGED labelFrame

\* the map is ready and shows plots; the label timeout of renderPlots and the
\* debounced handleZoom call createPlotLabels
SpecLabels == InitLoad /\ [][NextLabels]_vars

\* --------------------------------------------------------- usePlots hook
\* Texts are sequences of characters; upper case is left out, so toLowerCase
\* changes nothing.
MaxSearches == 3       \* searchPlots calls in one run

Queries == {<<>>, <<" ">>, <<"a">>, <<"b">>}

HookPlot(t, d, l) == [title |-> t, description |-> d, location |-> l]
PlotA == HookPlot(<<"a">>, <<"a", " ", "a">>, <<"a">>)
PlotB == HookPlot(<<"b">>, <<"b">>, <<"b", "b">>)
PlotAB == HookPlot(<<"a">>, <<"b">>, <<"a">>)
HookPlotLists == {<<PlotA, PlotB>>, <<PlotA, PlotB, PlotAB>>}

\* String.prototype.trim
RECURSIVE Trim(_)
Trim(t) ==
  IF t = <<>> THEN <<>>
  ELSE IF Head(t) = " " THEN Trim(Tail(t))
  ELSE IF t[Len(t)] = " " THEN Trim(SubSeq(t, 1, Len(t) - 1))
  ELSE t

\* String.prototype.includes
Includes(t, q) ==
  \E i \in 1..(Len(t) + 1) :
    i + Len(q) - 1 <= Len(t) /\ SubSeq(t, i, i + Len(q) - 1) = q

\* the local search of the catch block
PlotMatches(q, plot) ==
  \/ Includes(plot.title, q)
  \/ Includes(plot.description, q)
  \/ Includes(plot.location, q)

LocalSearch(q, list) == SelectSeq(list, LAMBDA plot : PlotMatches(q, plot))

\* PlotService.searchPlots: the service holds the records the hook loaded and
\* answers with those that match the query
ServiceSearch(q, list) == LocalSearch(q, list)

\* what a searchPlots call with this query shows when nothing else is going on
SearchShows(q) ==
  IF Trim(q) = <<>> THEN hookPlots ELSE LocalSearch(q, hookPlots)

hookFrame == <<svcVars, enrichVars, mapVars, btnVars, loadVars, initVars,
               geoVars, labelVars>>

\* searchPlots up to the await (SearchAndFilters.handleSearchChange calls it on
\* every change of the search box)
searchPlots(query) ==
  /\ searchCount < MaxSearches
  /\ searchCount' = searchCount + 1
  /\ searchQuery' = query
  /\ IF Trim(query) = <<>>
       THEN /\ filteredPlots' = hookPlots
            /\ UNCHANGED <<hookLoading, searches>>
       ELSE /\ hookLoading' = TRUE
            /\ searches' = searches \cup {[no |-> searchCount + 1, query |-> query]}
            /\ UNCHANGED filteredPlots
  /\ UNCHANGED hookPlots

\* the request settles: the rest of the try block or the catch block, then
\* finally
searchSettles(r, rejects) ==
  /\ r \in searches
  /\ filteredPlots' = IF rejects THEN LocalSearch(r.query, hookPlots)
                                 ELSE ServiceSearch(r.query, hookPlots)
  /\ hookLoading' = FALSE
  /\ searches' = searches \ {r}
  /\ UNCHANGED <<hookPlots, searchCount, searchQuery>>

\* the hook after its initial load
InitHook ==
  /\ SvcInit /\ EnrichInit /\ MapInit /\ BtnInit /\ LoadInit /\ MountInit
  /\ GeoInit /\ LabelInit
  /\ hookPlots \in HookPlotLists
  /\ filteredPlots = hookPlots
  /\ hookLoading = FALSE
  /\ searches = {}
  /\ searchCount = 0
  /\ searchQuery = <<>>

NextHook ==
  \/ \E query \in Queries : searchPlots(query) /\ UNCHANGED hookFrame
  \/ \E r \in searches, rejects \in BOOLEAN :
       searchSettles(r, rejects) /\ UNCHANGED hookFrame

SpecHook == InitHook /\ [][NextHook]_vars

\* ------------------------------------------------------------------ claims

\* the latest successful fetch is less than 30 s old and invalidateCache was
\* not called after it
FreshFetch ==
  /\ lastFetchAt >= 0
  /\ ~invalidatedSince
  /\ now - lastFetchAt < 30000

CallMade(c) == pc[c] = "idle" /\ pc'[c] # "idle"
LeavesWait(c) == pc[c] = "wait" /\ pc'[c] # "wait"

\* C1: getOrderedPlots is single-flight.  At most one /api/plots/ordered
\* request is in flight at any time; a call made while a fetch is in flight
\* enters the wait loop and issues no request; a waiting call leaves the loop
\* only when no fetch is in flight, and if the fetch it waited for succeeded
\* (the cache is fresh) it returns that fetch's list without a request of its
\* own, so the two overlapping calls cost one request; it fetches only when
\* the cache is not fresh.
C1_SingleFlight ==
  /\ [](Cardinality(inflight) <= 1)
  /\ [][\A c \in Callers :
          /\ (CallMade(c) /\ inflight # {}) =>
               (pc'[c] = "wait" /\ inflight' = inflight)
          /\ LeavesWait(c) =>
               /\ inflight = {}
               /\ FreshFetch =>
                    /\ pc'[c] = "done"
                    /\ result'[c] = lastFetchData
                    /\ inflight' = {}
               /\ pc'[c] = "fetch" => ~FreshFetch]_vars

\* C1 witness: two overlapping calls, one fetched successfully and the other
\* waited and was answered from the cache
C1_Witness ==
  \E c, d \in Callers :
    /\ c # d
    /\ pc[c] = "done" /\ outcome[c] = "ok"
    /\ pc[d] = "done" /\ waited[d] /\ outcome[d] = "hit"
    /\ result[d] = result[c] /\ result[c] # <<>>

\* C2: after a successful fetch at time t, a call made less than 30000 ms
\* after t with no invalidateCache in between returns the fetched list (also
\* when it is empty) and issues no request; a call made 30000 ms or more after
\* the latest successful fetch, with no fetch in flight, issues a request.
C2_CacheWindow ==
  [][\A c \in Callers : CallMade(c) =>
        /\ FreshFetch =>
             /\ pc'[c] = "done"
             /\ result'[c] = lastFetchData
             /\ inflight' = inflight
        /\ (lastFetchAt >= 0 /\ now - lastFetchAt >= 30000 /\ inflight = {}) =>
             (pc'[c] = "fetch" /\ inflight' = {c})]_vars

\* C2 witness: a call made strictly after the fetch was answered with the
\* cached empty list
C2_Witness ==
  \E c \in Callers :
    /\ pc[c] = "done" /\ outcome[c] = "hit" /\ ~waited[c]
    /\ result[c] = <<>>
    /\ FreshFetch /\ now > lastFetchAt
    /\ inflight = {}

\* C3: when the fetch fails, getOrderedPlots resolves (it does not throw)
\* with the cache contents, stale or not, or the empty list when the cache is
\* empty; the cache contents and timestamp are unchanged and isLoading is
\* reset.
C3_FailureFallback ==
  [][\A c \in Callers : (pc[c] = "fetch" /\ outcome'[c] = "failed") =>
        /\ pc'[c] = "done"
        /\ result'[c] = orderedPlotsCache
        /\ orderedPlotsCache' = orderedPlotsCache
        /\ cacheTimestamp' = cacheTimestamp
        /\ isLoading' = FALSE]_vars

\* C3 witness: a failed fetch was answered with a non-empty cache older than
\* 30 s
C3_Witness ==
  \E c \in Callers :
    /\ pc[c] = "done" /\ outcome[c] = "failed"
    /\ result[c] # <<>> /\ result[c] = orderedPlotsCache
    /\ now - cacheTimestamp >= 30000
    /\ ~isLoading

\* C4: invalidateCache leaves the cache empty and not valid, and the next
\* getOrderedPlots call made while no fetch is in flight issues a request.
C4_InvalidateThenFetch ==
  [][/\ (invalidatedPending' /\ pc' = pc /\ now' = now) =>
          (orderedPlotsCache' = <<>> /\ ~isCacheValid')
     /\ \A c \in Callers :
          (CallMade(c) /\ inflight = {} /\ invalidatedPending) =>
             pc'[c] = "fetch"]_vars

\* the list getOrderedPlots resolved with, the enrichment's argument and result
Ordered == result[EnrichCaller]
Settled == epc = "done"
WellFormed(ops) == \A j \in 1..Len(ops) : ops[j] # NullEntry
Matches(ops, id) == {j \in 1..Len(ops) : ops[j].plot_id = id}
StatusFor(orderStatus) ==
  IF orderStatus = "pending" THEN "pending"
  ELSE IF orderStatus = "approved" THEN "taken"
  ELSE "available"

\* C7: enrichPlotsWithOrderStatus returns one record per input plot, in input
\* order and with the same id.  Given a list of OrderedPlot entries, a plot
\* whose id matches an entry gets status pending / taken / available for
\* order_status pending / approved / rejected and orderStatus, orderDate and
\* customerName copied from that entry; a plot with no matching entry keeps
\* its status and has hasActiveOrder false.
C7_Enrichment ==
  Settled =>
    LET out == enriched.value IN
    /\ Len(out) = Len(plotsIn)
    /\ \A i \in 1..Len(plotsIn) : out[i].id = plotsIn[i].id
    /\ WellFormed(Ordered) =>
         \A i \in 1..Len(plotsIn) :
           IF Matches(Ordered, plotsIn[i].id) # {}
             THEN \E j \in Matches(Ordered, plotsIn[i].id) :
                    /\ out[i].status = StatusFor(Ordered[j].order_status)
                    /\ out[i].orderStatus = Ordered[j].order_status
                    /\ out[i].orderDate = Ordered[j].order_date
                    /\ out[i].customerName = Ordered[j].customer_name
             ELSE /\ out[i].status = plotsIn[i].status
                  /\ out[i].hasActiveOrder = FALSE

\* C7 witness: two plots were enriched, the first with an approved order and
\* a stored status other than taken, the second with no order
C7_Witness ==
  /\ Settled /\ WellFormed(Ordered)
  /\ Len(plotsIn) = 2
  /\ \E j \in Matches(Ordered, plotsIn[1].id) : Ordered[j].order_status = "approved"
  /\ plotsIn[1].status = "available"
  /\ enriched.value[1].status = "taken"
  /\ Matches(Ordered, plotsIn[2].id) = {}
  /\ enriched.value[2].status = "pending"

\* the input plots with their own status and hasActiveOrder false
IsPlainCopy(out, plotList) ==
  /\ Len(out) = Len(plotList)
  /\ \A i \in 1..Len(plotList) :
       /\ out[i].id = plotList[i].id
       /\ out[i].status = plotList[i].status
       /\ out[i].hasActiveOrder = FALSE

\* C8: enrichPlotsWithOrderStatus never rejects; on an internal error (a null
\* element in the list) and when the fetch failed with an empty cache it
\* returns every input plot with its own status and hasActiveOrder false.
C8_EnrichNeverThrows ==
  Settled =>
    /\ ~enriched.rejected
    /\ ~WellFormed(Ordered) => IsPlainCopy(enriched.value, plotsIn)
    /\ (outcome[EnrichCaller] = "failed" /\ orderedPlotsCache = <<>>) =>
         IsPlainCopy(enriched.value, plotsIn)

\* C8 witness: the list held a null element next to an entry for the plot
C8_Witness ==
  /\ Settled /\ ~WellFormed(Ordered)
  /\ Len(plotsIn) > 0
  /\ \E j \in 1..Len(Ordered) :
       Ordered[j].plot_id = plotsIn[1].id /\ Ordered[j].order_status = "approved"
  /\ plotsIn[1].status = "available"
  /\ enriched.value[1].status = "available"

\* C9: with several entries for one plot_id, the plot's status is derived from
\* the entry with the greatest order_date, whatever its position; a plot with
\* no entry keeps its stored status.
C9_LatestOrderWins ==
  (Settled /\ WellFormed(Ordered)) =>
    \A i \in 1..Len(plotsIn) :
      LET m == Matches(Ordered, plotsIn[i].id) IN
      IF m # {}
        THEN \E j \in m :
               /\ \A k \in m : Ordered[k].order_date <= Ordered[j].order_date
               /\ enriched.value[i].status = StatusFor(Ordered[j].order_status)
        ELSE enriched.value[i].status = plotsIn[i].status

Submitted(k) == orders[k].pc = "idle" /\ orders'[k].pc = "inflight"
Completed(k) == orders[k].pc = "inflight" /\ orders'[k].pc = "idle"

\* C5: handleOrderSubmit applies the optimistic update (the selected plot gets
\* status pending, hasActiveOrder true, orderStatus pending, every other plot
\* is untouched) in the step that issues createOrder; when createOrder fails
\* the plot list becomes exactly the list in place before that update, an
\* order error message is set and the order-status cache is not invalidated.
C5_OptimisticRollback ==
  [][\A k \in OrderSlots :
       /\ Submitted(k) =>
            /\ orders'[k].originalPlots = plots
            /\ Len(plots') = Len(plots)
            /\ \A i \in 1..Len(plots) :
                 IF plots[i].id = selectedPlot
                   THEN /\ plots'[i].id = plots[i].id
                        /\ plots'[i].status = "pending"
                        /\ plots'[i].hasActiveOrder
                        /\ plots'[i].orderStatus = "pending"
                   ELSE plots'[i] = plots[i]
       /\ (Completed(k) /\ orderOutcome' = "failed") =>
            /\ plots' = orders[k].originalPlots
            /\ orderError' # "null"
            /\ orderedPlotsCache' = orderedPlotsCache
            /\ cacheTimestamp' = cacheTimestamp
            /\ invalidatedSince' = invalidatedSince]_vars

\* C5 witness: an order failed, the ordered plot is available again without
\* order fields, the error is shown and the cache still holds its list
C5_Witness ==
  /\ orderOutcome = "failed"
  /\ orderError = "Failed to submit order"
  /\ \A k \in OrderSlots : orders[k].pc = "idle"
  /\ plots \in LoadedPlotLists
  /\ selectedPlot # NoPlot
  /\ \E i \in 1..Len(plots) :
       /\ plots[i].id = selectedPlot
       /\ plots[i].status = "available" /\ ~plots[i].hasActiveOrder
  /\ orderedPlotsCache # <<>> /\ isCacheValid

\* C6: when createOrder succeeds, the order-status cache is invalidated, the
\* selected plot is cleared, the order dialog is closed, no plot load is
\* started and the plot list is left as it is, optimistic record included.
C6_SuccessKeepsOptimistic ==
  [][\A k \in OrderSlots :
       (Completed(k) /\ orderOutcome' = "ok") =>
          /\ orderedPlotsCache' = <<>>
          /\ ~isCacheValid'
          /\ selectedPlot' = NoPlot
          /\ ~isModalOpen'
          /\ loadingRef' = loadingRef
          /\ plots' = plots]_vars

\* C6 witness: after the only order succeeded, the list is a loaded list in
\* which exactly the ordered plot carries the optimistic record, the dialog
\* is closed and a cache that held a list is empty
C6_Witness ==
  /\ orderOutcome = "ok"
  /\ \A k \in OrderSlots : orders[k].pc = "idle"
  /\ selectedPlot = NoPlot /\ ~isModalOpen /\ ~loadingRef
  /\ orderedPlotsCache = <<>> /\ lastFetchData # <<>>
  /\ \E l \in LoadedPlotLists : \E i \in 1..Len(plots) :
       /\ l[i].status = "available" /\ ~l[i].hasActiveOrder
       /\ plots[i].status = "pending" /\ plots[i].hasActiveOrder
       /\ plots[i].orderStatus = "pending" /\ plots[i].customerName = "b"
       /\ \A j \in 1..Len(plots) : j # i => plots[j] = l[j]

C12_OrderButtonText ==
  "text" \in btnCalled =>
    /\ (btnPlot.hasActiveOrder /\ btnPlot.orderStatus = "pending")
         => buttonText = "Order Pending"
    /\ (btnPlot.hasActiveOrder /\ btnPlot.orderStatus = "approved")
         => buttonText = "Plot Taken"
    /\ (btnPlot.hasActiveOrder /\ btnPlot.orderStatus = "rejected")
         => buttonText = "Reorder Plot"
    /\ (~btnPlot.hasActiveOrder /\ btnPlot.status = "available")
         => buttonText = "Order This Plot"
    /\ (~btnPlot.hasActiveOrder /\ btnPlot.status # "available")
         => buttonText = "Not Available"

\* the helper was called on an available plot with an approved order and
\* answered "Plot Taken"
C12_Witness ==
  /\ "text" \in btnCalled
  /\ btnPlot.hasActiveOrder
  /\ btnPlot.orderStatus = "approved"
  /\ btnPlot.status = "available"
  /\ buttonText = "Plot Taken"

\* the step in which the getAllPlots call at position i of fetches fails
FailStep(i) ==
  /\ fetches' = RemoveAt(fetches, i)
  /\ connectionStatus' = "disconnected"

\* C13: a loadPlots invocation whose fetches keep failing makes at most 4 fetch
\* attempts (the initial one and 3 retries); retry k starts 2000 * k ms after
\* failure k (2 s, 4 s, 6 s); the fourth failure schedules no further retry,
\* sets the load error message and sets loading to false.
C13_BoundedRetries ==
  [][/\ \A i \in 1..Len(fetches') :
          /\ fetches'[i].attempt <= 4
          /\ fetches'[i].attempt > 1 =>
                fetches'[i].startedAt - fetches'[i].failedAt
                  = 2000 * (fetches'[i].attempt - 1)
     /\ \A i \in 1..Len(fetches) :
          FailStep(i) =>
            IF fetches[i].attempt < 4
              THEN /\ Len(timers') = Len(timers) + 1
                   /\ timers'[Len(timers')].attempt = fetches[i].attempt + 1
                   /\ timers'[Len(timers')].due = clock + 2000 * fetches[i].attempt
              ELSE /\ timers' = timers
                   /\ error' # "null"
                   /\ loading' = FALSE]_vars

\* one chain went through all four attempts, 2 + 4 + 6 seconds after the first
\* failure, and ended in the load error
C13_Witness ==
  /\ error # "null"
  /\ loading = FALSE
  /\ connectionStatus = "disconnected"
  /\ fetches = <<>>
  /\ timers = <<>>
  /\ clock = 12000

\* C14: plot loads are serialized by the load-in-progress flag: whatever the
\* interleaving of initial load, scheduled retries, manual refresh and Try
\* Again, at most one getAllPlots request started by loadPlots is in flight,
\* and a loadPlots call made while one is in flight returns without fetching.
C14_OneLoadInFlight == Len(fetches) <= 1

\* C16: the first render of loaded plots snaps the map to the default view
\* (TANZANIA_CONFIG centre and default zoom), even if the user moved the map
\* before the plots arrived; every later render keeps the centre and zoom in
\* effect just before it. The render effect stores a new hash exactly when it
\* calls renderPlots.
C16_FirstRenderSnaps ==
  [][lastPlotsHashRef' # lastPlotsHashRef =>
       IF lastPlotsHashRef = NoHash
         THEN view' = DefaultView
         ELSE view' = view]_vars

\* C15: automatic retries of the map initialization are bounded: if the
\* container keeps reporting zero width or height, initializeMap stops
\* rescheduling itself after finitely many attempts and the failure is shown
\* as a map error.
C15_InitRetriesBounded ==
  ([]containerZero /\ <>(initTimer > 0))
    => <>[](initTimer = 0 /\ mapError # "null")

\* the rings of a geometry before and after the call, pairwise
RingPairs ==
  IF geometryIn.type = "Polygon"
    THEN {<<geometryIn.coordinates[i], geometry.coordinates[i]>> :
            i \in 1..Len(geometryIn.coordinates)}
    ELSE UNION {{<<geometryIn.coordinates[k][i], geometry.coordinates[k][i]>> :
                   i \in 1..Len(geometryIn.coordinates[k])} :
                k \in 1..Len(geometryIn.coordinates)}

RingsIn == {rp[1] : rp \in RingPairs}

WithinBand(v, limit) ==
  /\ v.kind = "finite"
  /\ ~Lt(v, Num(0 - limit, 0))
  /\ ~Lt(Num(limit, 0), v)

\* the value of the range [-limit, limit] nearest to v
Nearest(v, limit) ==
  IF Lt(Num(limit, 0), v) THEN Num(limit, 0)
  ELSE IF Lt(v, Num(0 - limit, 0)) THEN Num(0 - limit, 0)
  ELSE v

IsPolygonal == geometryIn.present /\ geometryIn.type \in {"Polygon", "MultiPolygon"}

\* C17: for a Polygon or MultiPolygon with at least one ring, isValidGeometry
\* returns true if and only if every ring has at least 4 points and every
\* point is a pair of finite numbers with longitude in [-180.1, 180.1] and
\* latitude in [-90.1, 90.1]; any other type and missing or empty coordinates
\* are rejected.
C17_ValidIffPairsInBand ==
  geomResult # "none" =>
    /\ (IsPolygonal /\ RingsIn # {}) =>
         (geomResult = "true" <=>
            \A r \in RingsIn :
              /\ Len(r) >= 4
              /\ \A i \in 1..Len(r) :
                   /\ Len(r[i]) = 2
                   /\ WithinBand(r[i][1], LngTolerance)
                   /\ WithinBand(r[i][2], LatTolerance))
    /\ (~IsPolygonal \/ geometryIn.coordinates = <<>>) => geomResult = "false"

\* C17 as the code has it: a point needs at least two entries, of which the
\* first two are finite numbers inside the band (a position with an altitude
\* passes), and a MultiPolygon also needs every polygon to have a ring.
C17_ValidIffPointsInBand ==
  geomResult # "none" =>
    /\ (IsPolygonal /\ geometryIn.coordinates # <<>>) =>
         (geomResult = "true" <=>
            /\ geometryIn.type = "MultiPolygon" =>
                 \A k \in 1..Len(geometryIn.coordinates) :
                   geometryIn.coordinates[k] # <<>>
            /\ \A r \in RingsIn :
                 /\ Len(r) >= 4
                 /\ \A i \in 1..Len(r) :
                      /\ Len(r[i]) >= 2
                      /\ WithinBand(r[i][1], LngTolerance)
                      /\ WithinBand(r[i][2], LatTolerance))
    /\ (~IsPolygonal \/ geometryIn.coordinates = <<>>) => geomResult = "false"

\* a polygon whose ring has a point on the edge of the tolerance band was
\* accepted
C17_Witness ==
  /\ geomResult = "true"
  /\ geometryIn.type = "Polygon"
  /\ \E r \in RingsIn : \E i \in 1..Len(r) : r[i] = PBand

OpenRing(r) ==
  \/ AbsDiffExceeds(Nearest(r[1][1], LngLimit), Nearest(r[Len(r)][1], LngLimit))
  \/ AbsDiffExceeds(Nearest(r[1][2], LatLimit), Nearest(r[Len(r)][2], LatLimit))

\* all points of the ring pair but the last are the clamped points of before
OnlyClamped(rp) ==
  /\ Len(rp[2]) = Len(rp[1])
  /\ \A i \in 1..(Len(rp[1]) - 1) :
       /\ rp[2][i][1] = Nearest(rp[1][i][1], LngLimit)
       /\ rp[2][i][2] = Nearest(rp[1][i][2], LatLimit)

IsRectangle ==
  \E x1, x2, y1, y2 \in CoordValues :
    /\ x1 < x2 /\ y1 < y2
    /\ \E k \in 1..4 :
         \/ centroidIn.ring = Rotate(RectRing(x1, x2, y1, y2), k)
         \/ centroidIn.ring = Reverse(Rotate(RectRing(x1, x2, y1, y2), k))

RingXs == {centroidIn.ring[i][1] : i \in 1..Len(centroidIn.ring)}
RingYs == {centroidIn.ring[i][2] : i \in 1..Len(centroidIn.ring)}
MinOf(S) == CHOOSE v \in S : \A w \in S : v <= w
MaxOf(S) == CHOOSE v \in S : \A w \in S : v >= w

\* the result is the point midway between the sides of the rectangle
IsCentre ==
  /\ 2 * centroid[1].n = (MinOf(RingXs) + MaxOf(RingXs)) * centroid[1].d
  /\ 2 * centroid[2].n = (MinOf(RingYs) + MaxOf(RingYs)) * centroid[2].d

ShoelaceSum ==
  LET ring == centroidIn.ring
  IN  SumOver([i \in 1..(Len(ring) - 1) |->
                 ring[i][1] * ring[i + 1][2] - ring[i + 1][1] * ring[i][2]],
              Len(ring) - 1, 0)

Degenerate == Abs(ShoelaceSum) < AreaThreshold(centroidIn.unit)

\* the sum of the k-th coordinates of the first n points of the ring
CoordSum(k, n) ==
  SumOver([i \in 1..Len(centroidIn.ring) |-> centroidIn.ring[i][k]], n, 0)

\* the fraction q equals n / d
FracIs(q, n, d) == q.n * d = n * q.d

\* the result is the mean of the listed points of the ring, or the mean of
\* its vertices with the closing point counted once
IsMeanOfPoints ==
  LET len == Len(centroidIn.ring)
  IN  \/ /\ FracIs(centroid[1], CoordSum(1, len), len)
         /\ FracIs(centroid[2], CoordSum(2, len), len)
      \/ /\ FracIs(centroid[1], CoordSum(1, len - 1), len - 1)
         /\ FracIs(centroid[2], CoordSum(2, len - 1), len - 1)

\* C21: when the signed-area sum of the outer ring has magnitude below 1e-10
\* (a degenerate ring), getPolygonCentroid returns the arithmetic mean of the
\* ring's points.
C21_FallbackIsMean ==
  (centroid # NoCentroid /\ Degenerate) => IsMeanOfPoints

\* every point of the ring of centroidIn lies in [-180, 180] x [-90, 90]
RingInRange ==
  \A i \in 1..Len(centroidIn.ring) :
    /\ Abs(centroidIn.ring[i][1]) <= LngLimitIn(centroidIn.unit)
    /\ Abs(centroidIn.ring[i][2]) <= LatLimitIn(centroidIn.unit)

\* the fraction q lies in [-limit, limit]
FracWithin(q, limit) ==
  LET a == Abs(q.n)
  IN  a \div q.d < limit \/ (a \div q.d = limit /\ a % q.d = 0)

\* C22: for every outer ring of at least 4 points whose coordinates all lie in
\* [-180, 180] x [-90, 90], the result of getPolygonCentroid lies in
\* [-180, 180] x [-90, 90], on the signed-area path and on the fallback path.
C22_ResultInRange ==
  (centroid # NoCentroid /\ Len(centroidIn.ring) >= 4 /\ RingInRange) =>
    /\ FracWithin(centroid[1], LngLimitIn(centroidIn.unit))
    /\ FracWithin(centroid[2], LatLimitIn(centroidIn.unit))

\* C23: at most one Leaflet map instance exists at any time, and
\* initializeMap creates no map while one exists or while initialization is
\* in progress, for every sequence of mount, zero-size-container retry, the
\* 500 ms ready fallback, the Try Again action and unmount.
C23_SingleMapInstance ==
  /\ [](leafletMaps <= 1)
  /\ [][leafletMaps' > leafletMaps =>
          /\ leafletMaps = 0 /\ mapRef = 0
          /\ ~initializingRef
          /\ leafletMaps' = 1]_vars

\* a map was replaced through Try Again after a map error, its 500 ms
\* fallback timer still pending next to the new one, and one map is live
C23_Witness ==
  /\ leafletMaps = 1 /\ mapRef = 1
  /\ readyTimer = 2
  /\ mapError = "null"
  /\ zeroAttempts > 0

\* the render effect runs in this step
RenderEffectRuns == renderEffectDue /\ ~renderEffectDue'

\* renderPlots leaves its marks in this step: a layer is built or removed, the
\* loading overlay is taken down or the view is stored
RenderPlotsActs ==
  \/ plotLayer' # plotLayer
  \/ loading /\ ~loading'
  \/ mapViewStateRef' # mapViewStateRef

\* C24: the plot layer is rebuilt only when the content hash of the plot
\* list over (id, status, hasActiveOrder, orderStatus) differs from the hash
\* recorded at the last rebuild, so a new array with identical content causes
\* no rebuild; the rebuild uses the current list, and it removes the previous
\* layer first so that at most one plot layer is attached to the map.
C24_RebuildOnHashChange ==
  /\ [](plotLayer.attached <= 1)
  /\ [][plotLayer' # plotLayer =>
          /\ RenderEffectRuns
          /\ PlotsHash(plots) # lastPlotsHashRef
          /\ lastPlotsHashRef' = PlotsHash(plots)
          /\ \/ plotLayer' = [ref |-> TRUE, attached |-> 1,
                              from |-> PlotsHash(plots)]
             \/ plotLayer' = [ref |-> FALSE, attached |-> 0,
                              from |-> plotLayer.from]]_vars
  /\ [][(RenderEffectRuns /\ PlotsHash(plots) = lastPlotsHashRef) =>
          ~RenderPlotsActs]_vars

\* a first layer was replaced by a layer built from a list with order fields;
\* then a refresh delivered a new array of identical content, the render
\* effect ran and left that layer alone
C24_Witness ==
  /\ plotLayer = [ref |-> TRUE, attached |-> 1, from |-> PlotsHash(plots)]
  /\ lastPlotsHashRef = PlotsHash(plots)
  /\ plots # <<>> /\ plots[1].order # "absent"
  /\ ~renderEffectDue
  /\ loading /\ fetches = <<>> /\ connectionStatus = "connected"
  /\ mapViewStateRef = MovedView

\* C25: once invalidateCache() has been called, no later getOrderedPlots call
\* is answered as a cache hit with data from a request that was issued before
\* that invalidation, also when the invalidation happens while a fetch is in
\* flight.
C25_NoStaleHitAfterInvalidate ==
  [][\A c \in Callers :
       (CallMade(c) /\ outcome'[c] = "hit") => ~issuedBefore.cache]_vars

\* no getAllPlots call is awaited, no retry is scheduled and no effect is due:
\* every loadPlots invocation made so far has run to its end
LoadsSettled ==
  /\ fetches = <<>> /\ timers = <<>>
  /\ ~loadEffectDue /\ ~renderEffectDue

\* C26: every loadPlots invocation that passes the load guard eventually
\* leaves the loading state false, provided each fetch completes: after the
\* retries are exhausted, after a successful fetch of changed data, and after
\* a successful fetch that returns data identical in content to the plots
\* already rendered.  Once every fetch has completed and every effect has
\* run, nothing but a new invocation changes the loading state, so it is
\* false by then.
C26_LoadingEnds == LoadsSettled => ~loading

\* C27: whenever the plot list changes in content while the map is ready, the
\* plot layer shown on the map is eventually rebuilt from the new list without
\* any further change of the plot list, also when the change arrives while
\* the render-in-progress flag is set by a zoom or move interaction.  Once
\* every load has run to its end, every effect has run and the timers of the
\* interaction have fired, nothing is left that would rebuild the layer, so
\* by then the layer is the one built from the current list.
C27_LayerFollowsPlots ==
  (LoadsSettled /\ moveTimers = {} /\ isMapReady /\ plots # <<>>) =>
    /\ lastPlotsHashRef = PlotsHash(plots)
    /\ (\E i \in 1..Len(plots) : plots[i].geomOk) =>
         plotLayer = [ref |-> TRUE, attached |-> 1, from |-> PlotsHash(plots)]

\* C28: when chunked label processing has finished, the label layer attached
\* to the map holds at most one label per plot and only labels of the most
\* recent createPlotLabels call, for plot sets larger than one chunk of 50 and
\* also when createPlotLabels is called again before the animation-frame
\* chunks of an earlier call have all run.
C28_LabelsOfLatestCall ==
  (labelFrames = <<>> /\ labelCalls > 0) =>
    \A g \in labelsOnMap :
      \A c \in labelGroups[g] :
        /\ c.call = labelCalls
        /\ \A d \in labelGroups[g] : c # d => (c.hi < d.lo \/ d.hi < c.lo)

\* createOrder rejected for the invocation in slot k: its catch block runs
Rollback(k) == orders[k].pc = "inflight" /\ orders'[k].pc = "idle"
                 /\ orderOutcome' = "failed"

\* C29: when an order submission fails, the rollback in handleOrderSubmit
\* undoes only the optimistic change: plot-list updates applied by a plot load
\* that completed while the order request was in flight are still present in
\* the plot list after the rollback.  Every plot other than the ordered one
\* that is in the list as that load delivered it is in the list after the
\* rollback.
C29_RollbackKeepsLoads ==
  [][\A k \in OrderSlots : Rollback(k) =>
        \A i \in 1..Len(plots) :
          (/\ plots[i].id # orders[k].plotId
           /\ \E j \in 1..Len(orders[k].loaded) : orders[k].loaded[j] = plots[i])
            => \E j \in 1..Len(plots') : plots'[j] = plots[i]]_vars

\* C30: in the usePlots hook, once all requests started by a sequence of
\* searchPlots calls have completed, the exposed plot list is the result of the
\* most recently issued query, whatever order the responses arrive in, and
\* isLoading is never false while one of those requests is still in flight.
C30_LatestSearchShown ==
  /\ (searches = {} /\ searchCount > 0) => filteredPlots = SearchShows(searchQuery)
  /\ searches # {} => hookLoading

====
